---- MODULE Spec2Model ----
(***************************************************************************)
(* Model of the plan executor (backend/app/services/agent/executor.py):    *)
(* the retry loop of execute_plan with its collaborators (the generation   *)
(* service, the pre-apply checks, apply_with_git, validate_build and       *)
(* _revert_changes) over a small project working tree.                     *)
(*                                                                         *)
(* Texts are sequences of tokens, so that "text a contains text b" is a    *)
(* computation on the texts the code builds.  Python's None is the empty   *)
(* sequence of an option (<<>>), a present value v is <<v>>.               *)
(***************************************************************************)
EXTENDS Integers, Sequences, FiniteSets, TLC

VARIABLES
    plan,            \* ExecutionPlan: files_to_modify, files_to_create
    max_retries,     \* parameter of execute_plan
    run_validation,  \* parameter of execute_plan
    file_contents,   \* parameter of execute_plan: path -> content, read once
    fs,              \* project working tree: existing path -> content
    tracked,         \* git index of the project: tracked path -> content
    pc,              \* position of execute_plan
    attempt,         \* loop variable of execute_plan
    attempts,        \* list of ExecutionAttempt
    total_tokens,    \* accumulator of execute_plan
    last_error,      \* option of text
    user_prompt,     \* text of the generation request being built/sent
    has_node_modules, \* whether the project has a node_modules directory
    modifications,   \* option: modifications of the response of this attempt
    usage,           \* option: token count of the response of this attempt
    diffs,           \* list of {file_path, diff} of this attempt
    validation_result, \* option: BuildValidationResult of this attempt
    fs_before_apply, \* working tree as it was when apply_with_git was entered
    result,          \* option: the ExecutionResult returned
    trace,           \* collaborator calls made so far, in order
    backups          \* .backups under the project root: one directory per apply

\* The project index (backend/app/services/embeddings.py)
VARIABLES
    project,         \* source files of the indexed project: path -> content
    index_file,      \* option: the FAISS index file of the project on disk
    meta_file,       \* option: the metadata sidecar of the project on disk
    _indices,        \* option: the entry of the project in the in-memory cache
    running,         \* the index_project calls: position and locals of each
    events,          \* what the index_project calls did so far, in order
    searched         \* option: file paths of the last search_similar answer

\* Retrieval fusion (backend/app/services/retrieval.py)
VARIABLES
    semantic,        \* results of search_similar: list of {file_path, score}
    keyword,         \* results of _keyword_search
    hints,           \* results of _match_hints
    top_k,           \* parameter of _merge_results
    merged,          \* the dict of _merge_results, in insertion order
    stage,           \* position of _merge_results: <<loop, next element>>
    ranked           \* option: the list _merge_results returned

\* Agent pipeline (backend/app/services/agent/loop.py)
VARIABLES
    step,            \* position of run_agent: the step that runs next
    intent_content,  \* option: content of the classification response
    intent,          \* option: the ParsedIntent of step 1
    retrieved,       \* list of file paths retrieve_relevant_files returned
    plan_content,    \* option: content of the planning response
    agent_plan,      \* option: the ExecutionPlan of step 3
    project_files,   \* the source files of the project: path to content
    files_read,      \* the file_contents dict of step 4
    agent_trace,     \* the AgentStep entries log_step appended
    agent_result     \* option: the AgentResult run_agent returned

\* Patch engine (backend/app/services/diff.py), on contents given character
\* by character
VARIABLES
    diff_original,   \* the original content
    diff_modified,   \* the modified content
    diff_filename,   \* the path of the file
    disk_file,       \* option: the content of the file in the working tree
    patch_text,      \* option: the text generate_unified_diff returned
    apply_success,   \* option: success of the ApplyResult
    diff_pc          \* which call comes next: diff, apply, or done

\* Build classification (validate_build of backend/app/services/agent/executor.py)
VARIABLES
    build_returncode, \* exit status of the build command
    build_stdout,     \* what the build command wrote to standard output
    build_stderr,     \* what the build command wrote to standard error
    build_validation  \* option: the BuildValidationResult validate_build gave

\* ReAct agent (backend/app/services/react_agent/loop.py and tools.py)
VARIABLES
    max_iterations,     \* parameter of run_react_agent
    react_node_modules, \* whether the project has a node_modules directory
    react_fs,           \* the source files of the project: path to content
    context,            \* the context dict the tools share
    iteration,          \* the loop variable: iterations performed so far
    react_steps,        \* the ReactStep entries recorded so far
    react_pc,           \* position of run_react_agent
    react_result,       \* option: the ReactResult run_react_agent returned
    model_calls,        \* number of chat completion calls made so far
    tool_log            \* the tool executions so far, with what they wrote

indexVars == <<project, index_file, meta_file, _indices, running, events, searched>>
retrievalVars == <<semantic, keyword, hints, top_k, merged, stage, ranked>>

agentVars == <<step, intent_content, intent, retrieved, plan_content, agent_plan,
               project_files, files_read, agent_trace, agent_result>>

diffVars == <<diff_original, diff_modified, diff_filename, disk_file, patch_text,
              apply_success, diff_pc>>

buildVars == <<build_returncode, build_stdout, build_stderr, build_validation>>

reactVars == <<max_iterations, react_node_modules, react_fs, context, iteration,
               react_steps, react_pc, react_result, model_calls, tool_log>>

\* the variables of the other components
otherVars == <<indexVars, retrievalVars, agentVars, diffVars, buildVars, reactVars>>

vars == <<plan, max_retries, run_validation, file_contents, fs, tracked, pc,
          attempt, attempts, total_tokens, last_error, user_prompt,
          has_node_modules, modifications, usage, diffs, validation_result,
          fs_before_apply, result, trace, backups, otherVars>>

----------------------------------------------------------------------------
\* Bounds of the model

MaxRetries == 2
MaxTokens == 2

----------------------------------------------------------------------------
\* Texts: sequences of tokens

\* b occurs in a (Python: b in a)
Contains(a, b) ==
    \E i \in 0..(Len(a) - Len(b)) : SubSeq(a, i + 1, i + Len(b)) = b

RECURSIVE Join(_, _)
\* sep.join(texts)
Join(texts, sep) ==
    IF texts = <<>> THEN <<>>
    ELSE IF Len(texts) = 1 THEN texts[1]
    ELSE texts[1] \o sep \o Join(Tail(texts), sep)

\* the elements of a sequence, as a set
Range(s) == {s[i] : i \in 1..Len(s)}

RECURSIVE SeqOfSet(_)
\* some enumeration of a finite set (Python iterates a set in some order)
SeqOfSet(S) ==
    IF S = {} THEN <<>>
    ELSE LET x == CHOOSE y \in S : TRUE IN <<x>> \o SeqOfSet(S \ {x})

\* the first n elements of a sequence (Python: s[:n])
Take(s, n) == SubSeq(s, 1, IF Len(s) < n THEN Len(s) ELSE n)

RECURSIVE SumTokens(_)
\* sum(a.tokens_used for a in attempts)
SumTokens(as) ==
    IF as = <<>> THEN 0 ELSE Head(as).tokens_used + SumTokens(Tail(as))

----------------------------------------------------------------------------
\* The project.  A path is the sequence of its segments, the extension last,
\* so that the extension fallbacks of import resolution are computed.

AppPath == <<"src", "App", ".jsx">>
FooterPath == <<"src", "components", "Footer", ".jsx">>
Paths == {AppPath, FooterPath}

\* File contents, by name.  Original is the content of src/App.jsx when the
\* request starts; OriginalNoEol is the same text without its final newline.
Empty == "empty"
Original == "original"
OriginalNoEol == "original-no-eol"
Plain == "plain"
UsesFooter == "uses-footer"
UsesBadPackage == "uses-bad-package"
UsesMissingFile == "uses-missing-file"
Contents == {Empty, Original, OriginalNoEol, Plain, UsesFooter,
             UsesBadPackage, UsesMissingFile}

\* IMPORT_PATTERN.findall(content): the relative imports of a content, in
\* order, each the sequence of its '/'-separated segments
IMPORT_PATTERN(content) ==
    CASE content = UsesFooter -> << <<".", "components", "Footer">> >>
      [] content = UsesMissingFile -> << <<".", "Missing">> >>
      [] OTHER -> <<>>

\* NPM_IMPORT_PATTERN.findall(content): the imports that do not start with
\* a dot or a quote
NPM_IMPORT_PATTERN(content) ==
    CASE content = Empty -> <<>>
      [] content = UsesBadPackage -> << <<"react">>, <<"react-icons", "fa">> >>
      [] content = UsesMissingFile -> << <<"react">>, <<"@radix-ui", "react-slot", "dist">> >>
      [] OTHER -> << <<"react">> >>

\* the scopes of scoped packages (imp.startswith("@"))
ScopedScopes == {"@radix-ui"}

\* packages installed under node_modules
InstalledPackages == { <<"react">> }

----------------------------------------------------------------------------
\* Pre-apply checks of execute_plan.  A modification is [file, content].

\* {mod.get("file") for mod in modifications}
modified_files(mods) == {mods[i].file : i \in 1..Len(mods)}

\* set(plan.files_to_create) - modified_files
missing_creates(files_to_create, mods) ==
    Range(files_to_create) \ modified_files(mods)

\* a path as text: its segments, in order
PathText(path) == path

RECURSIVE ResolveSegments(_, _)
ResolveSegments(parts, segments) ==
    IF segments = <<>> THEN parts
    ELSE LET segment == Head(segments)
             next == IF segment = ".."
                     THEN (IF parts # <<>>
                           THEN SubSeq(parts, 1, Len(parts) - 1) ELSE parts)
                     ELSE IF segment # "." THEN Append(parts, segment)
                     ELSE parts
         IN ResolveSegments(next, Tail(segments))

\* the directory of from_file (a file is <<dir..., stem, extension>>), then
\* the segments of the import applied to it
_resolve_import(from_file, import_path) ==
    ResolveSegments(SubSeq(from_file, 1, Len(from_file) - 2), import_path)

\* the extension and index-file fallbacks, in the order they are tried
extensions ==
    << <<".js">>, <<".jsx">>, <<".ts">>, <<".tsx">>, <<".json">>,
       <<"index", ".js">>, <<"index", ".jsx">>, <<"index", ".ts">>,
       <<"index", ".tsx">> >>

_import_exists(resolved_path, all_files) ==
    \/ resolved_path \in all_files
    \/ \E i \in 1..Len(extensions) : (resolved_path \o extensions[i]) \in all_files

\* the error texts of one modification, in the order of its imports
ImportErrorsOfMod(mod, all_files) ==
    IF mod.content = Empty THEN <<>>
    ELSE LET imports == IMPORT_PATTERN(mod.content)
             bad == SelectSeq(imports,
                        LAMBDA imp : ~_import_exists(_resolve_import(mod.file, imp), all_files))
         IN [i \in 1..Len(bad) |->
                <<"'">> \o PathText(mod.file) \o <<"' imports '">> \o bad[i]
                    \o <<"' but file not found">>]

RECURSIVE ImportErrors(_, _)
ImportErrors(mods, all_files) ==
    IF mods = <<>> THEN <<>>
    ELSE ImportErrorsOfMod(Head(mods), all_files) \o ImportErrors(Tail(mods), all_files)

\* <<>> (None) when every relative import resolves, else <<the error text>>
_validate_imports(mods, existing_files) ==
    LET errors == ImportErrors(mods, existing_files \cup modified_files(mods))
    IN IF errors # <<>> THEN << Join(Take(errors, 3), <<"; ">>) >> ELSE <<>>

\* the package an import names: @scope/package/path -> @scope/package,
\* package/path -> package
PackageName(imp) ==
    IF imp[1] \in ScopedScopes
    THEN (IF Len(imp) >= 2 THEN SubSeq(imp, 1, 2) ELSE imp)
    ELSE <<imp[1]>>

\* the packages a response imports that node_modules does not hold
missing_packages(mods) ==
    { PackageName(imp) :
        imp \in UNION { Range(NPM_IMPORT_PATTERN(mods[i].content)) : i \in 1..Len(mods) } }
    \ InstalledPackages

\* sorted(missing_packages): '@' sorts before letters
PackageOrder == << <<"@radix-ui", "react-slot">>, <<"react-icons">> >>

\* <<>> (None) when no package is missing or there is no node_modules
\* directory, else <<the error text>>
_check_npm_imports(mods, node_modules_exists) ==
    IF ~node_modules_exists THEN <<>>
    ELSE LET missing == missing_packages(mods)
             sorted == SelectSeq(PackageOrder, LAMBDA pkg : pkg \in missing)
         IN IF missing # {}
            THEN << <<"Missing npm packages: ">> \o Join(sorted, <<", ">>)
                    \o <<". These packages are not installed in the project.">> >>
            ELSE <<>>

----------------------------------------------------------------------------
\* Diffs.  The unified diff of one file is a text of one element, the record
\* of the file's change; the diff of equal contents is the empty text.

\* splitlines(keepends=True) with the final newline added when missing
NormalizeEol(content) ==
    IF content = OriginalNoEol THEN Original ELSE content

generate_unified_diff(original_content, modified_content, filename) ==
    IF NormalizeEol(original_content) = NormalizeEol(modified_content)
    THEN <<>>
    ELSE << [file |-> filename,
             from |-> NormalizeEol(original_content),
             to |-> NormalizeEol(modified_content)] >>

\* file_contents.get(file_path, "")
GetContent(contents, path) ==
    IF path \in DOMAIN contents THEN contents[path] ELSE Empty

\* full_content format: the modifications that carry a content
_parse_executor_response(mods) ==
    SelectSeq(mods, LAMBDA mod : mod.content # Empty)

RECURSIVE DiffsOf(_, _)
\* the {file_path, diff} entries of the parsed modifications whose diff is
\* not blank, in order
DiffsOf(parsed, contents) ==
    IF parsed = <<>> THEN <<>>
    ELSE LET mod == Head(parsed)
             diff_text == generate_unified_diff(GetContent(contents, mod.file),
                                                mod.content, mod.file)
         IN (IF diff_text # <<>>
             THEN << [file_path |-> mod.file, diff |-> diff_text] >>
             ELSE <<>>) \o DiffsOf(Tail(parsed), contents)

RECURSIVE CombinedDiff(_)
\* combined_diff: the diff texts of the entries, concatenated
CombinedDiff(ds) ==
    IF ds = <<>> THEN <<>> ELSE Head(ds).diff \o CombinedDiff(Tail(ds))

----------------------------------------------------------------------------
\* The straight-line code of an attempt between the parsed response and
\* apply_with_git: the checks in their order, each with the error it records
\* in the attempt and the error it leaves in last_error.

Failure(recorded, feedback) ==
    [ok |-> FALSE, error |-> recorded, last_error |-> feedback, diffs |-> <<>>]

\* `if not modifications`: <<>> when the check passes, else <<the failure>>
CheckModificationsReturned(mods) ==
    IF mods = <<>>
    THEN << Failure(<<"No modifications returned">>,
                    <<"No modifications returned", " by LLM">>) >>
    ELSE <<>>

\* CheckFilesToCreate that lets every response pass
CheckFilesToCreateSkipped(mods, files_to_create) == <<>>

\* every path of files_to_create is among the files of the modifications
CheckFilesToCreate(mods, files_to_create) ==
    IF missing_creates(files_to_create, mods) # {}
    THEN LET error_msg ==
                 <<"Missing required new files: ">>
                 \o Join(SeqOfSet(missing_creates(files_to_create, mods)), <<", ">>)
                 \o <<". You MUST create these files.">>
         IN << Failure(error_msg, error_msg) >>
    ELSE <<>>

\* CheckRelativeImports that lets every response pass
CheckRelativeImportsSkipped(mods, existing_files) == <<>>

\* validation step 1: relative imports
CheckRelativeImports(mods, existing_files) ==
    IF _validate_imports(mods, existing_files) # <<>>
    THEN LET error_msg == <<"Import validation failed: ">>
                          \o _validate_imports(mods, existing_files)[1]
         IN << Failure(error_msg, error_msg) >>
    ELSE <<>>

\* validation step 2: npm packages
CheckNpmImports(mods, node_modules_exists) ==
    IF _check_npm_imports(mods, node_modules_exists) # <<>>
    THEN LET error_msg == <<"NPM import validation failed: ">>
                          \o _check_npm_imports(mods, node_modules_exists)[1]
         IN << Failure(error_msg, error_msg) >>
    ELSE <<>>

\* the diffs of the response, or the failure of a response that changes
\* nothing
MakeDiffs(mods, contents) ==
    LET ds == DiffsOf(_parse_executor_response(mods), contents)
    IN IF ds = <<>>
       THEN Failure(<<"No actual changes generated">>,
                    <<"Generated code was identical to original">>)
       ELSE [ok |-> TRUE, error |-> <<>>, last_error |-> <<>>, diffs |-> ds]

\* PreApply that runs the relative-import check before the completeness check
PreApplyImportsFirst(mods, files_to_create, contents, existing_files, node_modules_exists) ==
    IF CheckModificationsReturned(mods) # <<>>
    THEN CheckModificationsReturned(mods)[1]
    ELSE IF CheckRelativeImports(mods, existing_files) # <<>>
    THEN CheckRelativeImports(mods, existing_files)[1]
    ELSE IF CheckFilesToCreate(mods, files_to_create) # <<>>
    THEN CheckFilesToCreate(mods, files_to_create)[1]
    ELSE IF CheckNpmImports(mods, node_modules_exists) # <<>>
    THEN CheckNpmImports(mods, node_modules_exists)[1]
    ELSE MakeDiffs(mods, contents)

PreApply(mods, files_to_create, contents, existing_files, node_modules_exists) ==
    IF CheckModificationsReturned(mods) # <<>>
    THEN CheckModificationsReturned(mods)[1]
    ELSE IF CheckFilesToCreate(mods, files_to_create) # <<>>
    THEN CheckFilesToCreate(mods, files_to_create)[1]
    ELSE IF CheckRelativeImports(mods, existing_files) # <<>>
    THEN CheckRelativeImports(mods, existing_files)[1]
    ELSE IF CheckNpmImports(mods, node_modules_exists) # <<>>
    THEN CheckNpmImports(mods, node_modules_exists)[1]
    ELSE MakeDiffs(mods, contents)

----------------------------------------------------------------------------
\* Records of execute_plan

ExecutionAttempt(attempt_number, success, diff, error, tokens_used) ==
    [attempt_number |-> attempt_number, success |-> success, diff |-> diff,
     error |-> error, tokens_used |-> tokens_used]

\* the elements of ExecutionResult.diffs, each with the Python type it has
\* at run time: a dict {file_path, diff}, or a str
PyDict(d) == [type |-> "dict", value |-> d]
PyStr(text) == [type |-> "str", value |-> text]

ExecutionResult(success, ds, files_modified, atts, tokens, error) ==
    [success |-> success, diffs |-> ds, files_modified |-> files_modified,
     attempts |-> atts, total_tokens |-> tokens, error |-> error]

\* a call of a collaborator, as the trace keeps it
Call(op, ok, text) == [op |-> op, attempt |-> attempt, ok |-> ok, text |-> text]

\* Python truth of an optional text: neither None nor ""
Truthy(opt) == opt # <<>> /\ opt[1] # <<>>

\* f"{last_error}" of an optional text
Str(opt) == IF opt = <<>> THEN <<"None">> ELSE opt[1]

\* EXECUTOR_RETRY_PROMPT.format(error=error)
EXECUTOR_RETRY_PROMPT(error) ==
    <<"## PREVIOUS ATTEMPT FAILED\n\n**Error:**\n">> \o error
        \o <<"\n\n## ANALYSIS & FIX INSTRUCTIONS ...">>

\* ExhaustedError that names the number of attempts only
ExhaustedErrorWithoutCause(retries, error) ==
    <<"Failed after ", ToString(retries), " attempts">>

\* f"Failed after {max_retries} attempts: {last_error}"
ExhaustedError(retries, error) ==
    <<"Failed after ", ToString(retries), " attempts: ">> \o Str(error)

\* UserPrompt that leaves the error of the previous attempt out
UserPromptWithoutFeedback(error) ==
    <<"Instruction: ... Execution Plan: ... Current Files: ...">>
    \o <<"\nGenerate the modifications:">>

\* the request text of an attempt
UserPrompt(error) ==
    <<"Instruction: ... Execution Plan: ... Current Files: ...">>
    \o (IF Truthy(error) THEN <<"\n\n">> \o EXECUTOR_RETRY_PROMPT(error[1]) ELSE <<>>)
    \o <<"\nGenerate the modifications:">>

----------------------------------------------------------------------------
\* Collaborators: the patch tool, the build command, git checkout

\* the patch of one file applies when the file holds the text the diff was
\* made from; a diff made from "" applies to an absent or an empty file
HunkApplies(d, tree) ==
    IF d.from = Empty
    THEN d.file \notin DOMAIN tree \/ tree[d.file] = Empty
    ELSE d.file \in DOMAIN tree /\ tree[d.file] = d.from

\* PatchApplies that is satisfied with one file of the patch applying
PatchAppliesAny(combined_diff, tree) ==
    \E i \in 1..Len(combined_diff) : HunkApplies(combined_diff[i], tree)

\* git apply checks every file of the patch before it writes any
PatchApplies(combined_diff, tree) ==
    \A i \in 1..Len(combined_diff) : HunkApplies(combined_diff[i], tree)

\* the working tree after git apply wrote the patch
Patched(combined_diff, tree) ==
    LET touched == {combined_diff[i].file : i \in 1..Len(combined_diff)}
        NewOf(path) ==
            LET i == CHOOSE j \in 1..Len(combined_diff) : combined_diff[j].file = path
            IN combined_diff[i].to
    IN [path \in DOMAIN tree \cup touched |->
            IF path \in touched THEN NewOf(path) ELSE tree[path]]

\* how a run of git apply can go
ApplyRuns == {"ran", "git_missing", "timed_out"}

\* apply_with_git after the backup: the ApplyResult
apply_with_git(combined_diff, tree, run) ==
    CASE run = "git_missing" ->
            [success |-> FALSE, message |-> <<"Git not available">>]
      [] run = "timed_out" ->
            [success |-> FALSE, message |-> <<"git apply timed out">>]
      [] OTHER ->
            IF PatchApplies(combined_diff, tree)
            THEN [success |-> TRUE,
                  message |-> <<"Changes applied successfully. Backup: ", ".backups/<timestamp>">>]
            ELSE [success |-> FALSE,
                  message |-> <<"git apply failed: ", "error: patch does not apply">>]

\* _create_project_backup that makes the directory and copies no file
_create_project_backupEmpty(combined_diff, tree) ==
    [path \in {} |-> Empty]

\* _create_project_backup: the directory .backups/<timestamp> with a copy of
\* every file of the diff that exists
_create_project_backup(combined_diff, tree) ==
    LET touched == {combined_diff[i].file : i \in 1..Len(combined_diff)}
    IN [path \in touched \cap DOMAIN tree |-> tree[path]]

\* AppliedTree in which a failing git apply has written the files whose own
\* part applies
AppliedTreePartial(combined_diff, tree, apply_result) ==
    IF apply_result.success
    THEN Patched(combined_diff, tree)
    ELSE Patched(SelectSeq(combined_diff, LAMBDA d : HunkApplies(d, tree)), tree)

\* the working tree after apply_with_git: git apply writes when it exits 0
AppliedTree(combined_diff, tree, apply_result) ==
    IF apply_result.success THEN Patched(combined_diff, tree) ELSE tree

\* git checkout -- . : every tracked file gets its indexed content back,
\* files git does not track stay as they are
Checkout(tree, index) ==
    [path \in DOMAIN tree \cup DOMAIN index |->
        IF path \in DOMAIN index THEN index[path] ELSE tree[path]]

\* Output texts of a failed build
ImportFailure == <<"Error: Cannot find module 'react-icons/fa'">>
SyntaxAndImportFailure ==
    <<"SyntaxError: Unexpected token (3:1)", "Error: Cannot find module './Footer'">>
LongFailure == <<"[2000 characters of build log]", "ReferenceError: Footer is not defined">>
BuildOutputs == {ImportFailure, SyntaxAndImportFailure, LongFailure}

\* the signatures of _classify_error that a token holds, lower-cased
SignaturesOf(token) ==
    CASE token = "Error: Cannot find module 'react-icons/fa'" -> {"cannot find module"}
      [] token = "Error: Cannot find module './Footer'" -> {"cannot find module"}
      [] token = "SyntaxError: Unexpected token (3:1)" -> {"syntaxerror", "unexpected token"}
      [] token = "ReferenceError: Footer is not defined" -> {"referenceerror", "is not defined"}
      [] token = "TypeError: items.map is not a function" -> {"typeerror"}
      [] token = "[vite] Failed to resolve import \"./Footer\"" -> {"failed to resolve import"}
      [] token = "ESLint: 2 problems" -> {"eslint", "lint"}
      [] OTHER -> {}

\* signature in error_output.lower()
Has(error_output, signature) ==
    \E i \in 1..Len(error_output) : signature \in SignaturesOf(error_output[i])

\* _classify_error with the reference test ahead of the import test
_classify_errorReferenceFirst(error_output) ==
    IF Has(error_output, "syntaxerror") \/ Has(error_output, "unexpected token")
    THEN "syntax"
    ELSE IF Has(error_output, "typeerror") \/ Has(error_output, "type error")
    THEN "type"
    ELSE IF Has(error_output, "referenceerror") \/ Has(error_output, "is not defined")
    THEN "reference"
    ELSE IF Has(error_output, "cannot find module")
            \/ Has(error_output, "failed to resolve import")
    THEN "import"
    ELSE IF Has(error_output, "eslint") \/ Has(error_output, "lint")
    THEN "lint"
    ELSE "build"

_classify_error(error_output) ==
    IF Has(error_output, "syntaxerror") \/ Has(error_output, "unexpected token")
    THEN "syntax"
    ELSE IF Has(error_output, "typeerror") \/ Has(error_output, "type error")
    THEN "type"
    ELSE IF Has(error_output, "cannot find module")
            \/ Has(error_output, "failed to resolve import")
    THEN "import"
    ELSE IF Has(error_output, "referenceerror") \/ Has(error_output, "is not defined")
    THEN "reference"
    ELSE IF Has(error_output, "eslint") \/ Has(error_output, "lint")
    THEN "lint"
    ELSE "build"

\* error_output[:2000] + "\n... (truncated)" when it is longer than 2000
Truncated(error_output) ==
    IF error_output = LongFailure
    THEN <<error_output[1], "\n... (truncated)">>
    ELSE error_output

BuildValidationResult(success, error_output, error_type) ==
    [success |-> success, error_output |-> error_output, error_type |-> error_type]

\* Exceptions collaborators raise, with the text str(e) gives; all are
\* subclasses of Exception
Exceptions ==
    { [class |-> "APITimeoutError", msg |-> <<"Request timed out.">>],
      [class |-> "TimeoutError", msg |-> <<>>] }
JsonError == [class |-> "JSONDecodeError", msg |-> <<"Expecting value: line 1 column 1 (char 0)">>]
OsError == [class |-> "OSError", msg |-> <<"[Errno 13] Permission denied">>]

\* an except clause that catches the errors of the generation service only
ExceptApiErrorsOnly == {"APITimeoutError"}

\* the classes `except Exception` catches
ExceptException == {"APITimeoutError", "TimeoutError", "JSONDecodeError", "OSError"}

\* how a run of the build can go
BuildRuns ==
    {[kind |-> k, out |-> <<>>] :
        k \in {"no_package_json", "exit_zero", "timed_out", "npm_missing", "exception"}}
    \cup {[kind |-> "exit_nonzero", out |-> o] : o \in BuildOutputs}

\* validate_build that counts a timeout of the build as a failure
validate_buildTimeoutFails(run) ==
    CASE run.kind \in {"no_package_json", "exit_zero", "npm_missing"} ->
            BuildValidationResult(TRUE, <<>>, <<>>)
      [] run.kind = "timed_out" ->
            BuildValidationResult(FALSE, << <<"Build timed out">> >>, <<"build">>)
      [] run.kind = "exit_nonzero" ->
            BuildValidationResult(FALSE, <<Truncated(run.out)>>,
                                  <<_classify_error(run.out)>>)
      [] OTHER ->
            BuildValidationResult(FALSE,
                << <<"Validation error: ", OsError.class, ": ">> \o OsError.msg >>,
                <<"validation">>)

validate_build(run) ==
    CASE run.kind \in {"no_package_json", "exit_zero", "timed_out", "npm_missing"} ->
            BuildValidationResult(TRUE, <<>>, <<>>)
      [] run.kind = "exit_nonzero" ->
            BuildValidationResult(FALSE, <<Truncated(run.out)>>,
                                  <<_classify_error(run.out)>>)
      [] OTHER ->
            BuildValidationResult(FALSE,
                << <<"Validation error: ", OsError.class, ": ">> \o OsError.msg >>,
                <<"validation">>)

----------------------------------------------------------------------------
\* State machine of execute_plan

\* the plans: modify the existing file, or modify it and create a new one
Plans ==
    { [files_to_modify |-> <<AppPath>>, files_to_create |-> <<>>],
      [files_to_modify |-> <<AppPath>>, files_to_create |-> <<FooterPath>>] }

\* the modifications a response can carry: at most one per path
Mods ==
    {[file |-> AppPath, content |-> c] :
        c \in {Original, OriginalNoEol, Plain, UsesFooter, UsesBadPackage, UsesMissingFile}}
    \cup {[file |-> FooterPath, content |-> c] : c \in {Empty, Plain}}
Responses ==
    {<<>>} \cup {<<m>> : m \in Mods}
    \cup {<<m, n>> : <<m, n>> \in {mn \in Mods \X Mods : mn[1].file # mn[2].file}}

\* no index_project call is running and nothing is indexed
IndexAtRest ==
    /\ project = <<>>
    /\ index_file = <<>>
    /\ meta_file = <<>>
    /\ _indices = <<>>
    /\ running = <<>>
    /\ events = <<>>
    /\ searched = <<>>

\* no _merge_results call is running
RetrievalAtRest ==
    /\ semantic = <<>>
    /\ keyword = <<>>
    /\ hints = <<>>
    /\ top_k = 0
    /\ merged = <<>>
    /\ stage = <<"idle", 0>>
    /\ ranked = <<>>

\* no run_agent call is running
AgentAtRest ==
    /\ step = "idle"
    /\ intent_content = <<>>
    /\ intent = <<>>
    /\ retrieved = <<>>
    /\ plan_content = <<>>
    /\ agent_plan = <<>>
    /\ project_files = <<>>
    /\ files_read = <<>>
    /\ agent_trace = <<>>
    /\ agent_result = <<>>

\* no call of the patch engine is running
DiffAtRest ==
    /\ diff_original = <<>>
    /\ diff_modified = <<>>
    /\ diff_filename = ""
    /\ disk_file = <<>>
    /\ patch_text = <<>>
    /\ apply_success = <<>>
    /\ diff_pc = "idle"

\* no build command has run
BuildAtRest ==
    /\ build_returncode = 0
    /\ build_stdout = <<>>
    /\ build_stderr = <<>>
    /\ build_validation = <<>>

\* no run_react_agent call is in progress
ReactAtRest ==
    /\ max_iterations = 0
    /\ react_node_modules = FALSE
    /\ react_fs = <<>>
    /\ context = <<>>
    /\ iteration = 0
    /\ react_steps = <<>>
    /\ react_pc = "idle"
    /\ react_result = <<>>
    /\ model_calls = 0
    /\ tool_log = <<>>

Init ==
    /\ ReactAtRest
    /\ BuildAtRest
    /\ AgentAtRest
    /\ DiffAtRest
    /\ IndexAtRest
    /\ RetrievalAtRest
    /\ plan \in Plans
    /\ max_retries \in 0..MaxRetries
    /\ run_validation \in BOOLEAN
    /\ has_node_modules \in BOOLEAN
    /\ fs = (AppPath :> Original)
    /\ tracked = fs
    /\ file_contents = fs
    /\ pc = "loop"
    /\ attempt = 1
    /\ attempts = <<>>
    /\ total_tokens = 0
    /\ last_error = <<>>
    /\ user_prompt = <<>>
    /\ modifications = <<>>
    /\ usage = <<>>
    /\ diffs = <<>>
    /\ validation_result = <<>>
    /\ fs_before_apply = fs
    /\ result = <<>>
    /\ trace = <<>>
    /\ backups = <<>>

\* FailAttempt that keeps the latest attempt only
FailAttemptKeepLatest(diff, error, feedback, tokens_used) ==
    /\ attempts' = << ExecutionAttempt(attempt, FALSE, diff, <<error>>, tokens_used) >>
    /\ last_error' = <<feedback>>
    /\ attempt' = attempt + 1
    /\ pc' = "loop"
    /\ UNCHANGED result

\* the attempt failed: record it, keep the error for the next request, and
\* go to the next iteration
FailAttempt(diff, error, feedback, tokens_used) ==
    /\ attempts' = Append(attempts,
                      ExecutionAttempt(attempt, FALSE, diff, <<error>>, tokens_used))
    /\ last_error' = <<feedback>>
    /\ attempt' = attempt + 1
    /\ pc' = "loop"
    /\ UNCHANGED result

\* an exception reached the except clause of the loop body
Raise(exc) ==
    IF exc.class \in ExceptException
    THEN FailAttempt(<<>>, exc.msg, exc.msg, 0)
    ELSE /\ pc' = "raised"
         /\ UNCHANGED <<attempts, last_error, attempt, result>>

\* Succeed without its return: the loop goes on after a passing attempt
SucceedAndGoOn(tokens_used, call) ==
    /\ attempts' = Append(attempts,
                      ExecutionAttempt(attempt, TRUE, CombinedDiff(diffs), <<>>, tokens_used))
    /\ trace' = Append(trace, call)
    /\ attempt' = attempt + 1
    /\ pc' = "loop"
    /\ UNCHANGED <<last_error, result>>

\* Succeed that lists every generated file in files_modified
SucceedListsGenerated(tokens_used, call) ==
    /\ attempts' = Append(attempts,
                      ExecutionAttempt(attempt, TRUE, CombinedDiff(diffs), <<>>, tokens_used))
    /\ result' = << ExecutionResult(TRUE,
                        [i \in 1..Len(diffs) |-> PyDict(diffs[i])],
                        [i \in 1..Len(modifications[1]) |-> modifications[1][i].file],
                        attempts', total_tokens, <<>>) >>
    /\ trace' = trace \o <<call, Call("return", TRUE, <<>>)>>
    /\ pc' = "done"
    /\ UNCHANGED <<last_error, attempt>>

\* all steps passed: record the attempt and return
Succeed(tokens_used, call) ==
    /\ attempts' = Append(attempts,
                      ExecutionAttempt(attempt, TRUE, CombinedDiff(diffs), <<>>, tokens_used))
    /\ result' = << ExecutionResult(TRUE,
                        [i \in 1..Len(diffs) |-> PyDict(diffs[i])],
                        [i \in 1..Len(diffs) |-> diffs[i].file_path],
                        attempts', total_tokens, <<>>) >>
    /\ trace' = trace \o <<call, Call("return", TRUE, <<>>)>>
    /\ pc' = "done"
    /\ UNCHANGED <<last_error, attempt>>

\* loop head: build the request of the attempt and send it
StartAttempt ==
    /\ pc = "loop"
    /\ attempt <= max_retries
    /\ user_prompt' = UserPrompt(last_error)
    /\ trace' = Append(trace, Call("generate", TRUE, <<>>))
    /\ modifications' = <<>>
    /\ usage' = <<>>
    /\ diffs' = <<>>
    /\ validation_result' = <<>>
    /\ pc' = "generate"
    /\ UNCHANGED <<otherVars, backups, plan, max_retries, run_validation, has_node_modules,
                   file_contents, fs, tracked, attempt, attempts, total_tokens,
                   last_error, fs_before_apply, result>>

\* the generation call raises, or returns a response without usage
GenerateRaises(exc) ==
    /\ pc = "generate"
    /\ Raise(exc)
    /\ trace' = Append(trace, Call("raise", FALSE, exc.msg))
    /\ UNCHANGED <<otherVars, backups, plan, max_retries, run_validation, has_node_modules,
                   file_contents, fs, tracked, total_tokens, user_prompt,
                   modifications, usage, diffs, validation_result,
                   fs_before_apply>>

\* the response came with its usage, and its content is not JSON
ResponseUnparsable(tokens) ==
    /\ pc = "generate"
    /\ total_tokens' = total_tokens + tokens
    /\ usage' = <<tokens>>
    /\ Raise(JsonError)
    /\ trace' = Append(trace, Call("raise", FALSE, JsonError.msg))
    /\ UNCHANGED <<otherVars, backups, plan, max_retries, run_validation, has_node_modules,
                   file_contents, fs, tracked, user_prompt, modifications,
                   diffs, validation_result, fs_before_apply>>

\* the response parsed, and listing the project files raises in the
\* relative-import check
ChecksRaise(tokens, mods) ==
    /\ pc = "generate"
    /\ mods # <<>>
    /\ missing_creates(plan.files_to_create, mods) = {}
    /\ total_tokens' = total_tokens + tokens
    /\ usage' = <<tokens>>
    /\ modifications' = <<mods>>
    /\ Raise(OsError)
    /\ trace' = Append(trace, Call("raise", FALSE, OsError.msg))
    /\ UNCHANGED <<otherVars, backups, plan, max_retries, run_validation, has_node_modules,
                   file_contents, fs, tracked, user_prompt, diffs,
                   validation_result, fs_before_apply>>

\* the response parsed: run the checks and make the diffs
ResponseParsed(tokens, mods) ==
    /\ pc = "generate"
    /\ total_tokens' = total_tokens + tokens
    /\ usage' = <<tokens>>
    /\ modifications' = <<mods>>
    /\ LET out == PreApply(mods, plan.files_to_create, file_contents,
                           DOMAIN fs, has_node_modules)
       IN IF out.ok
          THEN /\ diffs' = out.diffs
               /\ pc' = "apply"
               /\ UNCHANGED <<attempts, last_error, attempt, result>>
          ELSE /\ diffs' = <<>>
               /\ FailAttempt(<<>>, out.error, out.last_error, tokens)
    /\ UNCHANGED <<otherVars, backups, plan, max_retries, run_validation, has_node_modules,
                   file_contents, fs, tracked, user_prompt, validation_result,
                   fs_before_apply, trace>>

\* apply_with_git raises while it makes the backup
ApplyRaises ==
    /\ pc = "apply"
    /\ fs_before_apply' = fs
    /\ Raise(OsError)
    /\ trace' = trace \o <<Call("apply", FALSE, <<>>), Call("raise", FALSE, OsError.msg)>>
    /\ UNCHANGED <<otherVars, backups, plan, max_retries, run_validation, has_node_modules,
                   file_contents, fs, tracked, total_tokens, user_prompt,
                   modifications, usage, diffs, validation_result>>

\* apply_with_git returns its ApplyResult
Apply(run) ==
    /\ pc = "apply"
    /\ fs_before_apply' = fs
    /\ LET combined_diff == CombinedDiff(diffs)
           apply_result == apply_with_git(combined_diff, fs, run)
       IN /\ backups' = Append(backups, _create_project_backup(combined_diff, fs))
          /\ fs' = AppliedTree(combined_diff, fs, apply_result)
          /\ IF apply_result.success
             THEN IF run_validation
                  THEN /\ pc' = "build"
                       /\ trace' = Append(trace, Call("apply", TRUE, <<>>))
                       /\ UNCHANGED <<attempts, last_error, attempt, result>>
                  ELSE Succeed(usage[1], Call("apply", TRUE, <<>>))
             ELSE /\ trace' = Append(trace, Call("apply", FALSE, <<>>))
                  /\ FailAttempt(combined_diff, apply_result.message,
                                 apply_result.message, usage[1])
    /\ UNCHANGED <<otherVars, plan, max_retries, run_validation, has_node_modules,
                   file_contents, tracked, total_tokens, user_prompt,
                   modifications, usage, diffs, validation_result>>

\* BuildValidation that retries after a failed build without reverting
BuildValidationNoRevert(run) ==
    /\ pc = "build"
    /\ validation_result' = <<validate_build(run)>>
    /\ IF validate_build(run).success
       THEN Succeed(usage[1], Call("build", TRUE, <<run.kind>>))
       ELSE /\ trace' = Append(trace, Call("build", FALSE, <<run.kind>>))
            /\ LET error_msg == <<"Build failed (", validate_build(run).error_type[1],
                                  " error):\n">> \o validate_build(run).error_output[1]
               IN FailAttempt(CombinedDiff(diffs), error_msg, error_msg, usage[1])
    /\ UNCHANGED <<otherVars, backups, plan, max_retries, run_validation, has_node_modules,
                   file_contents, fs, tracked, total_tokens, user_prompt,
                   modifications, usage, diffs, fs_before_apply>>

\* validate_build returns its BuildValidationResult
BuildValidation(run) ==
    /\ pc = "build"
    /\ validation_result' = <<validate_build(run)>>
    /\ IF validate_build(run).success
       THEN Succeed(usage[1], Call("build", TRUE, <<run.kind>>))
       ELSE /\ pc' = "revert"
            /\ trace' = Append(trace, Call("build", FALSE, <<run.kind>>))
            /\ UNCHANGED <<attempts, last_error, attempt, result>>
    /\ UNCHANGED <<otherVars, backups, plan, max_retries, run_validation, has_node_modules,
                   file_contents, fs, tracked, total_tokens, user_prompt,
                   modifications, usage, diffs, fs_before_apply>>

\* Revert that gives up the execution when the revert failed
RevertFailureAborts(reverted) ==
    /\ pc = "revert"
    /\ fs' = IF reverted THEN Checkout(fs, tracked) ELSE fs
    /\ trace' = Append(trace, Call("revert", reverted, <<>>))
    /\ IF reverted
       THEN LET error_msg == <<"Build failed (", validation_result[1].error_type[1],
                               " error):\n">> \o validation_result[1].error_output[1]
            IN FailAttempt(CombinedDiff(diffs), error_msg, error_msg, usage[1])
       ELSE /\ pc' = "raised"
            /\ UNCHANGED <<attempts, last_error, attempt, result>>
    /\ UNCHANGED <<otherVars, backups, plan, max_retries, run_validation, has_node_modules,
                   file_contents, tracked, total_tokens, user_prompt,
                   modifications, usage, diffs, validation_result,
                   fs_before_apply>>

\* _revert_changes after a failed build, then the record of the attempt
Revert(reverted) ==
    /\ pc = "revert"
    /\ fs' = IF reverted THEN Checkout(fs, tracked) ELSE fs
    /\ trace' = Append(trace, Call("revert", reverted, <<>>))
    /\ LET error_msg == <<"Build failed (", validation_result[1].error_type[1],
                          " error):\n">> \o validation_result[1].error_output[1]
       IN FailAttempt(CombinedDiff(diffs), error_msg, error_msg, usage[1])
    /\ UNCHANGED <<otherVars, backups, plan, max_retries, run_validation, has_node_modules,
                   file_contents, tracked, total_tokens, user_prompt,
                   modifications, usage, diffs, validation_result,
                   fs_before_apply>>

\* all retries exhausted
Exhausted ==
    /\ pc = "loop"
    /\ attempt > max_retries
    /\ result' = << ExecutionResult(FALSE,
                        [i \in 1..Len(SelectSeq(attempts, LAMBDA a : a.diff # <<>>)) |->
                            PyStr(SelectSeq(attempts, LAMBDA a : a.diff # <<>>)[i].diff)],
                        <<>>, attempts, total_tokens,
                        <<ExhaustedError(max_retries, last_error)>>) >>
    /\ trace' = Append(trace, Call("return", FALSE, <<>>))
    /\ pc' = "done"
    /\ UNCHANGED <<otherVars, backups, plan, max_retries, run_validation, has_node_modules,
                   file_contents, fs, tracked, attempt, attempts, total_tokens,
                   last_error, user_prompt, modifications, usage, diffs,
                   validation_result, fs_before_apply>>

Next ==
    \/ StartAttempt
    \/ \E exc \in Exceptions : GenerateRaises(exc)
    \/ \E tokens \in 1..MaxTokens : ResponseUnparsable(tokens)
    \/ \E tokens \in 1..MaxTokens, mods \in Responses : ChecksRaise(tokens, mods)
    \/ \E tokens \in 1..MaxTokens, mods \in Responses : ResponseParsed(tokens, mods)
    \/ ApplyRaises
    \/ \E run \in ApplyRuns : Apply(run)
    \/ \E run \in BuildRuns : BuildValidation(run)
    \/ \E reverted \in BOOLEAN : Revert(reverted)
    \/ Exhausted

Spec == Init /\ [][Next]_vars

----------------------------------------------------------------------------
\* Properties of execute_plan

\* the calls of the trace, by position
Calls == 1..Len(trace)

\* the execution has returned
Returned == result # <<>>

\* the last entry of the attempt log
LastAttempt == attempts[Len(attempts)]

\* attempt k applied its patch and, when build validation is enabled, its
\* build validation passed
AllPassed(k) ==
    /\ \E i \in Calls : trace[i].op = "apply" /\ trace[i].attempt = k /\ trace[i].ok
    /\ run_validation =>
          \E i \in Calls : trace[i].op = "build" /\ trace[i].attempt = k /\ trace[i].ok

\* C1: an attempt in which apply and (when enabled) build validation passed
\* is recorded with success=true as the last entry of attempts, the only one
\* with success=true, and execute_plan has returned success right after the
\* passing call: the trace ends with that call and the return, so that no
\* generation, apply or revert follows it.
C1_SuccessReturnsAtOnce ==
    /\ \A k \in 1..MaxRetries + 1 :
          AllPassed(k) =>
             /\ pc = "done"
             /\ Returned /\ result[1].success
             /\ Len(attempts) = k
             /\ attempts[k].success /\ attempts[k].attempt_number = k
             /\ \A j \in 1..(k - 1) : ~attempts[j].success
             /\ Len(trace) >= 2
             /\ trace[Len(trace)].op = "return"
             /\ trace[Len(trace) - 1].op \in {"apply", "build"}
             /\ trace[Len(trace) - 1].attempt = k
             /\ trace[Len(trace) - 1].ok
    /\ \A i \in 1..Len(attempts) :
          attempts[i].success => i = Len(attempts) /\ AllPassed(i)

\* C1 witness: the second attempt passed after a failed first one, with
\* build validation enabled
C1_Witness ==
    /\ pc = "done"
    /\ run_validation
    /\ Len(attempts) = 2
    /\ ~attempts[1].success
    /\ attempts[2].success
    /\ result[1].success

\* C2: after a build validation that failed, the next call of execute_plan
\* is the revert of the same attempt: it comes before the next generation
\* call and before the return.
C2_RevertFollowsBuildFailure ==
    \A i \in Calls :
        (trace[i].op = "build" /\ ~trace[i].ok) =>
            IF i = Len(trace)
            THEN pc = "revert"
            ELSE trace[i + 1].op = "revert" /\ trace[i + 1].attempt = trace[i].attempt

\* C2 witness: the build failed in the first and in the last attempt, a
\* generation call followed the first revert and the return the last
C2_Witness ==
    /\ pc = "done"
    /\ Len(attempts) = 2
    /\ \E i, j \in Calls :
          /\ trace[i].op = "build" /\ ~trace[i].ok /\ trace[i].attempt = 1
          /\ trace[i + 2].op = "generate"
          /\ trace[j].op = "build" /\ ~trace[j].ok /\ trace[j].attempt = 2
          /\ trace[j + 2].op = "return"

\* the files the patch of this attempt touches
PatchedFiles == {diffs[i].file_path : i \in 1..Len(diffs)}

\* C3 (as claimed): right after a revert that reported success, every file
\* the patch modified has its content of just before apply and every file
\* the patch created does not exist.
C3_RevertRestoresPreApplyState ==
    (trace # <<>> /\ trace[Len(trace)].op = "revert" /\ trace[Len(trace)].ok) =>
        \A path \in PatchedFiles :
            IF path \in DOMAIN fs_before_apply
            THEN path \in DOMAIN fs /\ fs[path] = fs_before_apply[path]
            ELSE path \notin DOMAIN fs

\* the checks a response passed, recomputed from the response
PassedChecks(mods) ==
    /\ mods # <<>>
    /\ missing_creates(plan.files_to_create, mods) = {}
    /\ _validate_imports(mods, IF pc = "apply" THEN DOMAIN fs
                                ELSE DOMAIN fs_before_apply) = <<>>
    /\ _check_npm_imports(mods, has_node_modules) = <<>>
    /\ \E i \in 1..Len(mods) :
          /\ mods[i].content # Empty
          /\ generate_unified_diff(GetContent(file_contents, mods[i].file),
                                   mods[i].content, mods[i].file) # <<>>

\* C4: when apply is about to be invoked or was invoked for the attempt in
\* progress, the response of that attempt was parsed and is non-empty, passed
\* the completeness, relative-import and external-package checks and gave
\* at least one non-empty diff; build validation is about to be invoked or
\* was invoked only right after the successful apply of the same attempt.
C4_ApplyOnlyAfterChecks ==
    /\ pc = "apply" =>
          /\ modifications # <<>> /\ usage # <<>>
          /\ PassedChecks(modifications[1])
          /\ diffs # <<>>
          /\ \A i \in 1..Len(diffs) : diffs[i].diff # <<>>
    /\ \A i \in Calls :
          trace[i].op = "apply" =>
             /\ trace[i - 1].op = "generate"
             /\ trace[i - 1].attempt = trace[i].attempt
             /\ (\A j \in Calls : j > i => trace[j].op # "generate") =>
                   modifications # <<>> /\ PassedChecks(modifications[1])
    /\ pc = "build" =>
          /\ trace[Len(trace)].op = "apply"
          /\ trace[Len(trace)].ok
          /\ trace[Len(trace)].attempt = attempt
    /\ \A i \in Calls :
          trace[i].op = "build" =>
             /\ trace[i - 1].op = "apply"
             /\ trace[i - 1].ok
             /\ trace[i - 1].attempt = trace[i].attempt

\* C4 witness: build validation runs on the patch of a response that
\* modifies one file and creates the file it imports
C4_Witness ==
    /\ pc = "build"
    /\ Len(diffs) = 2
    /\ \E i \in 1..Len(modifications[1]) : modifications[1][i].content = UsesFooter

\* the text the completeness check records
MissingFilesError == "Missing required new files: "

\* the response of the latest parsed attempt omits a path of files_to_create
OmitsRequiredFile ==
    /\ modifications # <<>>
    /\ missing_creates(plan.files_to_create, modifications[1]) # {}

\* the attempt that got the response in modifications failed with the
\* "missing required new files" error, and apply was not called in it
FailedAsMissingFiles ==
    /\ attempts # <<>>
    /\ ~LastAttempt.success
    /\ LastAttempt.error # <<>>
    /\ LastAttempt.error[1] # <<>>
    /\ LastAttempt.error[1][1] = MissingFilesError
    /\ \A path \in missing_creates(plan.files_to_create, modifications[1]) :
          Contains(LastAttempt.error[1], PathText(path))
    /\ \A i \in Calls :
          trace[i].op = "apply" => trace[i].attempt # LastAttempt.attempt_number

\* C5 (as claimed): every response whose modification set omits a path of
\* files_to_create makes its attempt fail with the "missing required new
\* files" error, without a call of apply.
C5_OmissionFailsAsMissingFiles ==
    OmitsRequiredFile => FailedAsMissingFiles

\* C5 (amended): every response with a non-empty modification list that
\* omits a path of files_to_create makes its attempt fail with the "missing
\* required new files" error, without a call of apply.
C5_NonEmptyOmissionFailsAsMissingFiles ==
    (OmitsRequiredFile /\ modifications[1] # <<>>) => FailedAsMissingFiles

\* C5 witness: a response that modifies the existing file and omits the
\* file to create was judged
C5_Witness ==
    /\ OmitsRequiredFile
    /\ modifications[1] # <<>>
    /\ pc = "loop"

\* the error text attempt k recorded
RecordedError(k) == attempts[k].error[1]

NoChangesError == <<"No actual changes generated">>
NoChangesFeedback == <<"Generated code was identical to original">>

\* C6 (as claimed): the generation request of attempt k+1 contains the error
\* string recorded for the failed attempt k.
C6_RequestContainsRecordedError ==
    (pc = "generate" /\ attempt > 1) =>
        Contains(user_prompt, RecordedError(attempt - 1))

\* C6 (amended): the generation request of attempt k+1 contains the error
\* string recorded for the failed attempt k, inside the retry block when
\* that string is not empty, except after a no-op diff, where the attempt
\* records "No actual changes generated" and the request carries "Generated
\* code was identical to original".
C6_RequestContainsFeedback ==
    (pc = "generate" /\ attempt > 1) =>
        /\ ~attempts[attempt - 1].success
        /\ IF RecordedError(attempt - 1) = NoChangesError
           THEN Contains(user_prompt, EXECUTOR_RETRY_PROMPT(NoChangesFeedback))
           ELSE /\ Contains(user_prompt, RecordedError(attempt - 1))
                /\ RecordedError(attempt - 1) # <<>> =>
                      \E feedback \in {last_error[1]} :
                          /\ Contains(feedback, RecordedError(attempt - 1))
                          /\ Contains(user_prompt, EXECUTOR_RETRY_PROMPT(feedback))

\* C6 witness: the request of the second attempt is out after a first
\* attempt whose build failed
C6_Witness ==
    /\ pc = "generate"
    /\ attempt = 2
    /\ RecordedError(1) # <<>>
    /\ RecordedError(1)[1] = "Build failed ("

\* C7: execute_plan never lets an exception out; every exception raised in
\* an attempt is recorded as the error of that attempt, which failed, and
\* the next call is the generation of the next attempt or the return of the
\* failure result; an exception inside build validation is recorded as the
\* build failure of its attempt.
C7_ExceptionsAreRecorded ==
    /\ pc # "raised"
    /\ \A i \in Calls :
          trace[i].op = "raise" =>
             /\ trace[i].attempt <= Len(attempts)
             /\ ~attempts[trace[i].attempt].success
             /\ attempts[trace[i].attempt].error = <<trace[i].text>>
             /\ IF i = Len(trace)
                THEN pc = "loop" /\ attempt = trace[i].attempt + 1
                ELSE \/ /\ trace[i + 1].op = "generate"
                        /\ trace[i + 1].attempt = trace[i].attempt + 1
                     \/ /\ trace[i + 1].op = "return"
                        /\ ~trace[i + 1].ok
                        /\ trace[i].attempt = max_retries
    /\ \A i \in Calls :
          (trace[i].op = "build" /\ trace[i].text = <<"exception">>
              /\ trace[i].attempt <= Len(attempts)) =>
             /\ ~attempts[trace[i].attempt].success
             /\ Contains(attempts[trace[i].attempt].error[1], <<"Validation error: ">>)

\* C7 witness: an exception in the first attempt, after the response was
\* parsed, then an exception in apply in the last attempt, and the failure
\* result returned
C7_Witness ==
    /\ pc = "done"
    /\ ~result[1].success
    /\ Len(attempts) = 2
    /\ \E i, j \in Calls :
          /\ trace[i].op = "raise" /\ trace[i].attempt = 1
          /\ trace[i - 1].op = "generate"
          /\ modifications # <<>>
          /\ trace[j].op = "raise" /\ trace[j].attempt = 2
          /\ trace[j - 1].op = "apply"

\* the iterations of the loop that were begun
Iterations == Cardinality({i \in Calls : trace[i].op = "generate"})

\* C8: the attempt log has one entry per finished iteration, entry i with
\* attempt_number i; a step leaves the log as it is or appends one entry;
\* when every attempt failed, the result has success=false and max_retries
\* entries.
C8_OneAttemptPerIteration ==
    /\ [](/\ \A i \in 1..Len(attempts) : attempts[i].attempt_number = i
          /\ Len(attempts) =
                IF pc \in {"generate", "apply", "build", "revert"}
                THEN Iterations - 1 ELSE Iterations
          /\ (Returned /\ \A i \in 1..Len(attempts) : ~attempts[i].success) =>
                /\ ~result[1].success
                /\ Len(result[1].attempts) = max_retries
                /\ result[1].attempts = attempts)
    /\ [][\/ attempts' = attempts
          \/ /\ Len(attempts') = Len(attempts) + 1
             /\ SubSeq(attempts', 1, Len(attempts)) = attempts]_vars

\* C8 witness: both of two attempts failed and the result is returned
C8_Witness ==
    /\ Returned
    /\ max_retries = 2
    /\ Len(attempts) = 2
    /\ ~result[1].success

\* the run ended with every attempt failed
ExhaustedResult == Returned /\ ~result[1].success /\ attempts # <<>>

\* C9 (as claimed): when all attempts fail, the error of the result contains
\* the error text recorded in the last attempt.
C9_ResultErrorContainsLastAttemptError ==
    ExhaustedResult => Contains(result[1].error[1], LastAttempt.error[1])

\* C9 (amended): when all attempts fail, the error of the result contains
\* the error text recorded in the last attempt, except when the last attempt
\* failed on a no-op diff: it records "No actual changes generated" and the
\* result carries "Generated code was identical to original".
C9_ResultErrorContainsLastFeedback ==
    ExhaustedResult =>
        /\ result[1].error # <<>>
        /\ result[1].error[1][1] = "Failed after "
        /\ IF LastAttempt.error[1] = NoChangesError
           THEN Contains(result[1].error[1], NoChangesFeedback)
           ELSE Contains(result[1].error[1], LastAttempt.error[1])

\* C9 witness: the last of two failed attempts failed at apply
C9_Witness ==
    /\ ExhaustedResult
    /\ Len(attempts) = 2
    /\ LastAttempt.error[1] = <<"git apply timed out">>

\* C10 (as claimed): total_tokens of the result is the sum of tokens_used
\* over its attempts.
C10_TotalTokensIsSumOfAttempts ==
    Returned => result[1].total_tokens = SumTokens(result[1].attempts)

----------------------------------------------------------------------------
\* Properties of apply_with_git, validate_build and _revert_changes inside
\* execute_plan

\* the step is a call of apply_with_git
ApplyStep == pc = "apply" /\ Len(trace') > Len(trace)

\* the ApplyResult of the call of this step reported failure
ApplyStepFailed == ApplyStep /\ ~trace'[Len(trace) + 1].ok

\* the files the combined diff refers to
Referenced(combined_diff) == {combined_diff[i].file : i \in 1..Len(combined_diff)}

\* C11: apply is all-or-nothing over the combined diff: when the part of the
\* combined diff for one file does not apply, apply reports failure and no
\* file the combined diff refers to is changed or created, the files whose
\* own part applies included.
C11_ApplyIsAllOrNothing ==
    [][ (ApplyStep /\ \E i \in 1..Len(CombinedDiff(diffs)) :
                        ~HunkApplies(CombinedDiff(diffs)[i], fs))
        => /\ ApplyStepFailed
           /\ \A path \in Referenced(CombinedDiff(diffs)) :
                 /\ path \in DOMAIN fs' <=> path \in DOMAIN fs
                 /\ path \in DOMAIN fs => fs'[path] = fs[path] ]_vars

\* C11 witness: git apply ran on a combined diff of two files, the part of
\* the first applies and the part of the second does not, and apply failed
C11_Witness ==
    /\ pc = "loop" /\ trace # <<>>
    /\ trace[Len(trace)].op = "apply" /\ ~trace[Len(trace)].ok
    /\ LastAttempt.error[1][1] = "git apply failed: "
    /\ Len(CombinedDiff(diffs)) = 2
    /\ HunkApplies(CombinedDiff(diffs)[1], fs)
    /\ ~HunkApplies(CombinedDiff(diffs)[2], fs)

\* no revert is called in an attempt whose apply failed
NoRevertAfterFailedApply ==
    \A i, j \in Calls :
        (trace[i].op = "apply" /\ ~trace[i].ok /\ trace[j].op = "revert")
            => trace[j].attempt # trace[i].attempt

\* C12 (as claimed): an attempt that fails at the apply step leaves no side
\* effect under the project root, neither in the source files nor in any
\* other directory of the project, and revert is not called in that attempt.
C12_FailedApplyLeavesNoSideEffect ==
    /\ []NoRevertAfterFailedApply
    /\ [][ ApplyStepFailed => fs' = fs /\ backups' = backups ]_vars

\* C12 (amended): an attempt that fails at the apply step leaves every
\* source file of the project as it was and revert is not called in that
\* attempt; the backup directory of the call is its only side effect.
C12_FailedApplyLeavesSourceFiles ==
    /\ []NoRevertAfterFailedApply
    /\ [][ ApplyStepFailed => fs' = fs /\ pc' # "revert" ]_vars

\* C12 witness: git apply ran and failed, one part of the diff would have
\* applied, the source files are as before and a backup directory exists
C12_Witness ==
    /\ pc = "loop" /\ trace # <<>>
    /\ trace[Len(trace)].op = "apply" /\ ~trace[Len(trace)].ok
    /\ LastAttempt.error[1][1] = "git apply failed: "
    /\ \E i \in 1..Len(CombinedDiff(diffs)) : HunkApplies(CombinedDiff(diffs)[i], fs)
    /\ fs = fs_before_apply
    /\ Len(backups) = 2

\* the build of call i timed out
BuildTimedOut(i) == trace[i].op = "build" /\ trace[i].text = <<"timed_out">>

\* C13: a build that times out after a successful apply counts as passed:
\* the attempt is recorded with success=true, no revert is called in it,
\* the patch stays applied and execute_plan returns success.
C13_BuildTimeoutPasses ==
    \A i \in Calls :
        BuildTimedOut(i) =>
            /\ trace[i].ok
            /\ pc = "done"
            /\ i = Len(trace) - 1 /\ trace[Len(trace)].op = "return"
            /\ Returned /\ result[1].success
            /\ LastAttempt.success
            /\ LastAttempt.attempt_number = trace[i].attempt
            /\ \A j \in Calls :
                  trace[j].op = "revert" => trace[j].attempt # trace[i].attempt
            /\ fs = Patched(CombinedDiff(diffs), fs_before_apply)
            /\ fs # fs_before_apply

\* C13 witness: the build of the second attempt timed out after the first
\* attempt failed at its build
C13_Witness ==
    /\ pc = "done"
    /\ Len(attempts) = 2
    /\ \E i \in Calls : BuildTimedOut(i) /\ trace[i].attempt = 2
    /\ \E i \in Calls : trace[i].op = "build" /\ ~trace[i].ok

\* the error text of a failed build starts like this
BuildFailedError == "Build failed ("

\* C14: a revert that fails after a failed build does not abort
\* execute_plan: the attempt is recorded as failed with the build failure as
\* its error, that build failure is the feedback of the next request, and
\* the next call is the generation of the next attempt or the return of the
\* exhaustion result, which carries the build failure.
C14_RevertFailureIsNotFatal ==
    \A i \in Calls :
        (trace[i].op = "revert" /\ ~trace[i].ok) =>
            LET k == trace[i].attempt IN
            /\ pc # "raised"
            /\ Len(attempts) >= k
            /\ ~attempts[k].success
            /\ RecordedError(k)[1] = BuildFailedError
            /\ trace[i - 1].op = "build" /\ ~trace[i - 1].ok
            /\ IF i = Len(trace)
               THEN pc = "loop" /\ attempt = k + 1 /\ last_error = attempts[k].error
               ELSE \/ /\ trace[i + 1].op = "generate"
                       /\ trace[i + 1].attempt = k + 1
                       /\ k < max_retries
                       /\ (pc = "generate" /\ i + 1 = Len(trace))
                             => Contains(user_prompt, RecordedError(k))
                    \/ /\ trace[i + 1].op = "return"
                       /\ k = max_retries
                       /\ ExhaustedResult
                       /\ Contains(result[1].error[1], RecordedError(k))

\* C14 witness: the revert of the first attempt failed and the request of the
\* second attempt has been sent
C14_Witness ==
    /\ pc = "generate"
    /\ attempt = 2
    /\ trace[Len(trace) - 1].op = "revert" /\ ~trace[Len(trace) - 1].ok
    /\ fs # fs_before_apply

----------------------------------------------------------------------------
\* The project index: backend/app/services/embeddings.py
\*
\* index_project is followed through its accesses to what its calls share:
\* the project files, the index file, the metadata sidecar and the cache
\* _indices.  Two calls can be under way at once.  The project files change
\* between calls only.  One project id is modelled.

\* Bounds of the index model
MaxCalls == 2
MaxEdits == 1
MaxRestarts == 1

\* the call slots
Slots == {1, 2}

\* the source files list_project_files can find, in sorted order
SourcePaths == <<"src/App.jsx", "src/Footer.jsx">>

\* a file whose read_text raises (its bytes are not UTF-8)
Undecodable == <<"\\xff">>

\* a text that reads like the end of one hashed file and the start of the next
Quoting == <<"x", "src/Footer.jsx", ":", "y">>

\* the projects: no source file, one file, two files, a file that cannot be
\* read beside one that can, and no file that can be read
Projects ==
    { <<>>,
      (SourcePaths[1] :> <<"x">>),
      (SourcePaths[1] :> Quoting),
      (SourcePaths[1] :> <<"x">>) @@ (SourcePaths[2] :> <<"y">>),
      (SourcePaths[1] :> <<"x">>) @@ (SourcePaths[2] :> Undecodable),
      (SourcePaths[1] :> Undecodable) }

\* list_project_files: the files of the project, sorted
list_project_files(tree) ==
    SelectSeq(SourcePaths, LAMBDA path : path \in DOMAIN tree)

\* the files read_file_content reads without raising, sorted
ReadableFiles(tree) ==
    SelectSeq(list_project_files(tree), LAMBDA path : tree[path] # Undecodable)

RECURSIVE HashInput(_, _)
\* the bytes compute_project_hash feeds to md5: f"{file_path}:{content}" of
\* every file that can be read, one after the other
HashInput(files, tree) ==
    IF files = <<>> THEN <<>>
    ELSE <<Head(files), ":">> \o tree[Head(files)] \o HashInput(Tail(files), tree)

\* the digest stands for its input: equal inputs, equal digests
compute_project_hash(tree) == HashInput(ReadableFiles(tree), tree)

\* file_metadata of index_project: one entry per file that can be read
FileMetadata(tree) ==
    [i \in 1..Len(ReadableFiles(tree)) |->
        [file_path |-> ReadableFiles(tree)[i],
         content |-> <<"File: ", ReadableFiles(tree)[i], "\n\n">>
                        \o tree[ReadableFiles(tree)[i]]]]

\* the FAISS index built from the documents: one vector per document
FaissIndex(file_metadata) ==
    [i \in 1..Len(file_metadata) |-> file_metadata[i].content]

\* the sidecar that appends the files to the ones of the sidecar it replaces
MetadataAppended(old, current_hash, file_metadata) ==
    [project_hash |-> current_hash,
     files_count |-> Len(file_metadata),
     files |-> (IF old = <<>> THEN <<>> ELSE old[1].files) \o file_metadata]

\* the metadata index_project writes over the sidecar `old`
Metadata(old, current_hash, file_metadata) ==
    [project_hash |-> current_hash,
     files_count |-> Len(file_metadata),
     files |-> file_metadata]

\* a cache check that never finds the index up to date
AlreadyIndexedNever(force, current_hash, index_on_disk, meta_on_disk) == FALSE

\* the check of index_project for an index that is up to date
AlreadyIndexed(force, current_hash, index_on_disk, meta_on_disk) ==
    /\ ~force
    /\ index_on_disk # <<>>
    /\ meta_on_disk # <<>>
    /\ meta_on_disk[1].project_hash = current_hash

\* a cache that keeps the entry it has
CacheEntryKept(old, index, metadata) ==
    IF old # <<>> THEN old ELSE << [index |-> index, metadata |-> metadata] >>

\* _indices[project] = {"index": index, "metadata": metadata}
CacheEntry(old, index, metadata) == << [index |-> index, metadata |-> metadata] >>

\* a call slot at rest
NotRunning == [pc |-> "idle", n |-> 0, current_hash |-> <<>>, file_metadata |-> <<>>]

\* no index_project call is under way
AllIdle == \A c \in DOMAIN running : running[c].pc = "idle"

Event(n, kind, info) == [call |-> n, kind |-> kind, info |-> info]

\* the events of one kind
EventsOf(kind) == {i \in 1..Len(events) : events[i].kind = kind}

\* execute_plan is not running
ExecutorAtRest ==
    /\ plan = [files_to_modify |-> <<>>, files_to_create |-> <<>>]
    /\ max_retries = 0
    /\ run_validation = FALSE
    /\ has_node_modules = FALSE
    /\ fs = <<>>
    /\ tracked = <<>>
    /\ file_contents = <<>>
    /\ pc = "idle"
    /\ attempt = 1
    /\ attempts = <<>>
    /\ total_tokens = 0
    /\ last_error = <<>>
    /\ user_prompt = <<>>
    /\ modifications = <<>>
    /\ usage = <<>>
    /\ diffs = <<>>
    /\ validation_result = <<>>
    /\ fs_before_apply = <<>>
    /\ result = <<>>
    /\ trace = <<>>
    /\ backups = <<>>

executorVars ==
    <<plan, max_retries, run_validation, file_contents, fs, tracked, pc,
      attempt, attempts, total_tokens, last_error, user_prompt,
      has_node_modules, modifications, usage, diffs, validation_result,
      fs_before_apply, result, trace, backups>>

InitIndex ==
    /\ ReactAtRest
    /\ BuildAtRest
    /\ DiffAtRest
    /\ AgentAtRest
    /\ ExecutorAtRest
    /\ RetrievalAtRest
    /\ project \in Projects
    /\ index_file = <<>>
    /\ meta_file = <<>>
    /\ _indices = <<>>
    /\ running = [c \in Slots |-> NotRunning]
    /\ events = <<>>
    /\ searched = <<>>

\* index_project up to its return or to the call of get_embeddings: the
\* hash, the check of the index on disk, the read of the files
Begin(c, force) ==
    /\ running[c].pc = "idle"
    /\ \A other \in Slots : other < c => running[other].pc # "idle"
    /\ Cardinality(EventsOf("start")) < MaxCalls
    /\ LET n == Cardinality(EventsOf("start")) + 1
           current_hash == compute_project_hash(project)
           start == Event(n, "start",
                          [force |-> force,
                           stale |-> /\ index_file # <<>>
                                     /\ meta_file # <<>>
                                     /\ meta_file[1].project_hash # current_hash])
           Return(reason) ==
               /\ events' = events \o <<start, Event(n, "return", reason)>>
               /\ UNCHANGED running
       IN IF AlreadyIndexed(force, current_hash, index_file, meta_file)
          THEN Return("already_indexed")
          ELSE IF list_project_files(project) = <<>>
          THEN Return("no_files")
          ELSE IF FileMetadata(project) = <<>>
          THEN Return("no_readable_files")
          ELSE /\ events' = Append(events, start)
               /\ running' = [running EXCEPT ![c] =
                                 [pc |-> "embed", n |-> n,
                                  current_hash |-> current_hash,
                                  file_metadata |-> FileMetadata(project)]]
    /\ UNCHANGED <<executorVars, retrievalVars, agentVars, diffVars, buildVars, reactVars, project, index_file, meta_file,
                   _indices, searched>>

\* get_embeddings returns the vectors of the documents
Embed(c) ==
    /\ running[c].pc = "embed"
    /\ running' = [running EXCEPT ![c].pc = "write_index"]
    /\ events' = Append(events, Event(running[c].n, "embed", ""))
    /\ UNCHANGED <<executorVars, retrievalVars, agentVars, diffVars, buildVars, reactVars, project, index_file, meta_file,
                   _indices, searched>>

\* get_embeddings raises: index_project ends with the exception
EmbedRaises(c) ==
    /\ running[c].pc = "embed"
    /\ running' = [running EXCEPT ![c] = NotRunning]
    /\ events' = Append(events, Event(running[c].n, "raise", ""))
    /\ UNCHANGED <<executorVars, retrievalVars, agentVars, diffVars, buildVars, reactVars, project, index_file, meta_file,
                   _indices, searched>>

\* faiss.write_index
WriteIndex(c) ==
    /\ running[c].pc = "write_index"
    /\ index_file' = << FaissIndex(running[c].file_metadata) >>
    /\ running' = [running EXCEPT ![c].pc = "write_meta"]
    /\ events' = Append(events, Event(running[c].n, "write_index", ""))
    /\ UNCHANGED <<executorVars, retrievalVars, agentVars, diffVars, buildVars, reactVars, project, meta_file, _indices,
                   searched>>

\* json.dump(metadata) into the sidecar
WriteMeta(c) ==
    /\ running[c].pc = "write_meta"
    /\ meta_file' = << Metadata(meta_file, running[c].current_hash,
                                running[c].file_metadata) >>
    /\ running' = [running EXCEPT ![c].pc = "cache"]
    /\ events' = Append(events, Event(running[c].n, "write_meta", ""))
    /\ UNCHANGED <<executorVars, retrievalVars, agentVars, diffVars, buildVars, reactVars, project, index_file, _indices,
                   searched>>

\* the entry of _indices is set and index_project returns indexed=True
Cache(c) ==
    /\ running[c].pc = "cache"
    /\ _indices' = CacheEntry(_indices, FaissIndex(running[c].file_metadata),
                              Metadata(<<>>, running[c].current_hash,
                                       running[c].file_metadata))
    /\ running' = [running EXCEPT ![c] = NotRunning]
    /\ events' = Append(events, Event(running[c].n, "return", "indexed"))
    /\ UNCHANGED <<executorVars, retrievalVars, agentVars, diffVars, buildVars, reactVars, project, index_file, meta_file,
                   searched>>

\* _load_index: the entry of the cache, else the index read from disk
_load_index(cache, index_on_disk, meta_on_disk) ==
    IF cache # <<>> THEN cache
    ELSE IF index_on_disk = <<>> \/ meta_on_disk = <<>> THEN <<>>
    ELSE << [index |-> index_on_disk[1], metadata |-> meta_on_disk[1]] >>

\* search_similar between two index_project calls, with top_k not below the
\* number of files: the paths of the files whose vector is in the index
Search ==
    /\ AllIdle
    /\ LET data == _load_index(_indices, index_file, meta_file)
       IN /\ _indices' = data
          /\ searched' =
                IF data = <<>> THEN << {} >>
                ELSE << {data[1].metadata.files[i].file_path :
                            i \in (1..Len(data[1].index))
                                    \cap (1..Len(data[1].metadata.files))} >>
    /\ UNCHANGED <<executorVars, retrievalVars, agentVars, diffVars, buildVars, reactVars, project, index_file, meta_file,
                   running, events>>

\* the files of the project change between two calls
EditProject(new) ==
    /\ AllIdle
    /\ Cardinality(EventsOf("edit")) < MaxEdits
    /\ new # project
    /\ project' = new
    /\ events' = Append(events, Event(0, "edit", ""))
    /\ UNCHANGED <<executorVars, retrievalVars, agentVars, diffVars, buildVars, reactVars, index_file, meta_file, _indices,
                   running, searched>>

\* the backend process starts again: the cache is empty, the files stay
Restart ==
    /\ AllIdle
    /\ Cardinality(EventsOf("restart")) < MaxRestarts
    /\ _indices # <<>>
    /\ _indices' = <<>>
    /\ events' = Append(events, Event(0, "restart", ""))
    /\ UNCHANGED <<executorVars, retrievalVars, agentVars, diffVars, buildVars, reactVars, project, index_file, meta_file,
                   running, searched>>

NextIndex ==
    \/ \E c \in Slots, force \in BOOLEAN : Begin(c, force)
    \/ \E c \in Slots : Embed(c)
    \/ \E c \in Slots : EmbedRaises(c)
    \/ \E c \in Slots : WriteIndex(c)
    \/ \E c \in Slots : WriteMeta(c)
    \/ \E c \in Slots : Cache(c)
    \/ Search
    \/ \E new \in Projects : EditProject(new)
    \/ Restart

SpecIndex == InitIndex /\ [][NextIndex]_vars

----------------------------------------------------------------------------
\* Properties of the project index

\* the events of call n
EventsOfCall(n, kind) == {i \in EventsOf(kind) : events[i].call = n}

\* event i is the normal return of a call that found or built the index
ReturnedIndex(i) ==
    events[i].kind = "return" /\ events[i].info \in {"indexed", "already_indexed"}

\* C15: of two consecutive index_project calls with force=false on a project
\* that did not change in between, the first having returned with the index
\* in place, the second returns indexed=false with reason "already_indexed"
\* at once: it does not call the embedding service and writes neither the
\* index file nor the sidecar; the embedding service is called once by the
\* first call when that call built the index.
C15_SecondCallIsAlreadyIndexed ==
    \A r \in 1..(Len(events) - 1) :
        (/\ ReturnedIndex(r)
         /\ events[r + 1].kind = "start"
         /\ ~events[r + 1].info.force)
        => /\ r + 2 <= Len(events)
           /\ events[r + 2] = Event(events[r + 1].call, "return", "already_indexed")
           /\ EventsOfCall(events[r + 1].call, "embed") = {}
           /\ EventsOfCall(events[r + 1].call, "write_index") = {}
           /\ EventsOfCall(events[r + 1].call, "write_meta") = {}
           /\ Cardinality(EventsOfCall(events[r].call, "embed"))
                 = IF events[r].info = "indexed" THEN 1 ELSE 0

\* C15 witness: the first call built the index of a project with a file that
\* can be read, the second call followed it and has returned
C15_Witness ==
    /\ Len(events) >= 3
    /\ events[Len(events)].kind = "return"
    /\ events[Len(events) - 1].kind = "start"
    /\ ~events[Len(events) - 1].info.force
    /\ events[Len(events) - 2] = Event(1, "return", "indexed")
    /\ ReadableFiles(project) # <<>>

\* call n ran alone: between its start and its last event no other call acted
RanAlone(n) ==
    \A i, j, k \in 1..Len(events) :
        (i < j /\ j < k /\ events[i].call = n /\ events[k].call = n)
            => events[j].call = n

\* C16 (as claimed): right after an index_project call that began with a
\* stored hash different from the hash of the current files, the index has
\* been rebuilt from the current files: the call embedded them, the stored
\* hash is the current hash and the indexed files are the current files
\* (those that can be read).
C16_StaleIndexIsRebuilt ==
    \A s \in EventsOf("start") :
        LET n == events[s].call IN
        (/\ events[s].info.stale
         /\ events[Len(events)].call = n
         /\ events[Len(events)].kind = "return"
         /\ RanAlone(n))
        => /\ EventsOfCall(n, "embed") # {}
           /\ meta_file # <<>>
           /\ meta_file[1].project_hash = compute_project_hash(project)
           /\ [i \in 1..Len(meta_file[1].files) |-> meta_file[1].files[i].file_path]
                 = ReadableFiles(project)

BothMissed(s1, s2) ==
    /\ s1 < s2
    /\ \A i \in (s1 + 1)..(s2 - 1) :
          ~(events[i].call = events[s1].call /\ events[i].kind \in {"return", "raise"})
    /\ \E i \in EventsOfCall(events[s1].call, "return") : events[i].info = "indexed"
    /\ \E i \in EventsOfCall(events[s2].call, "return") : events[i].info = "indexed"

\* C18: after two index_project calls on the project that overlapped and
\* both missed the cache, in whatever order their steps were taken, the index
\* file, the sidecar and the cache entry are what a single call leaves, and
\* the index file and the sidecar are about the same files.
C18_RaceLeavesSingleCallState ==
    \A s1, s2 \in EventsOf("start") :
        (/\ BothMissed(s1, s2)
         /\ AllIdle
         /\ \A i \in s2..Len(events) : events[i].kind \notin {"edit", "restart"})
        => /\ index_file = << FaissIndex(FileMetadata(project)) >>
           /\ meta_file = << Metadata(<<>>, compute_project_hash(project),
                                      FileMetadata(project)) >>
           /\ _indices = CacheEntry(<<>>, index_file[1], meta_file[1])
           /\ Len(index_file[1]) = Len(meta_file[1].files)
           /\ \A i \in 1..Len(index_file[1]) :
                 index_file[1][i] = meta_file[1].files[i].content

\* C18 witness: the second call wrote the index file first and the sidecar
\* last, the first call wrote in between, and both have returned
C18_Witness ==
    /\ AllIdle
    /\ \E s1, s2 \in EventsOf("start") : BothMissed(s1, s2)
    /\ \E i, j, k, l \in 1..Len(events) :
          /\ i < j /\ j < k /\ k < l
          /\ events[i] = Event(2, "write_index", "")
          /\ events[j] = Event(1, "write_index", "")
          /\ events[k] = Event(1, "write_meta", "")
          /\ events[l] = Event(2, "write_meta", "")

----------------------------------------------------------------------------
\* Retrieval fusion: _merge_results of backend/app/services/retrieval.py
\*
\* Scores are counted in tenths and weights in tenths, so that a merged score
\* is a whole number of hundredths: 0.8 * 0.5 + 0.5 * 0.3 = 0.55 reads
\* 8 * 5 + 5 * 3 = 55.

\* Bounds of the retrieval model
MaxResults == 2
MaxTopK == 2

\* the weights of the signals, in tenths
SEMANTIC_WEIGHT == 5
KEYWORD_WEIGHT == 3
HINT_WEIGHT == 8

\* the score of a hint match, in tenths
HintScore == 9

\* the files the retrievers can return, in sorted order
RetrievedPaths == <<"src/App.jsx", "src/Footer.jsx", "src/index.css">>

\* cosine similarities search_similar can report, in tenths
SemanticScores == {3, 8}

\* numbers of keyword matches in a file
MatchCounts == {5, 12}

\* min(match_count / 10, 1.0), in tenths
KeywordScore(match_count) == IF match_count >= 10 THEN 10 ELSE match_count

Result(file_path, score) == [file_path |-> file_path, score |-> score]

\* the lists of at most MaxResults results over distinct files with scores
\* from `scores`
ResultLists(scores) ==
    LET Files == Range(RetrievedPaths)
        RECURSIVE Lists(_)
        Lists(n) ==
            IF n = 0 THEN {<<>>}
            ELSE Lists(n - 1)
                 \cup {Append(l, Result(f, sc)) :
                          l \in {k \in Lists(n - 1) : Len(k) = n - 1},
                          f \in Files, sc \in scores}
    IN {l \in Lists(MaxResults) :
            \A i, j \in 1..Len(l) : i # j => l[i].file_path # l[j].file_path}

\* a list in descending order of score, as search_similar and _keyword_search
\* return it
Descending(l) == \A i \in 1..(Len(l) - 1) : l[i].score >= l[i + 1].score

\* a list in the order of list_project_files, as _match_hints returns it
InFileOrder(l) ==
    \A i \in 1..(Len(l) - 1), a, b \in 1..Len(RetrievedPaths) :
        (RetrievedPaths[a] = l[i].file_path /\ RetrievedPaths[b] = l[i + 1].file_path)
            => a < b

\* the position of the entry of `path` in the dict, 0 when it has none
PositionOf(dict, path) ==
    IF \E i \in 1..Len(dict) : dict[i].file_path = path
    THEN CHOOSE i \in 1..Len(dict) : dict[i].file_path = path
    ELSE 0

\* result["score"] * weight without the weight
Unweighted(score, weight) == score

\* result["score"] * weight
Weighted(score, weight) == score * weight

\* add_result that makes a new entry for every result
add_resultAlwaysNew(dict, r, weight, signal) ==
    Append(dict, [file_path |-> r.file_path,
                  score |-> Weighted(r.score, weight),
                  signals |-> <<signal>>])

\* add_result of _merge_results: the dict after the result was added
add_result(dict, r, weight, signal) ==
    LET with_entry ==
            IF PositionOf(dict, r.file_path) = 0
            THEN Append(dict, [file_path |-> r.file_path, score |-> 0,
                               signals |-> <<>>])
            ELSE dict
        at == PositionOf(with_entry, r.file_path)
    IN [with_entry EXCEPT
            ![at].score = @ + Weighted(r.score, weight),
            ![at].signals = Append(@, signal)]

\* the entries left in the order of the dict
SortedByScoreNot(entries) == entries

RECURSIVE SortedByScoreLastFirst(_)
\* a descending sort that puts entries of equal score in reverse order
SortedByScoreLastFirst(entries) ==
    IF entries = <<>> THEN <<>>
    ELSE LET best == CHOOSE i \in 1..Len(entries) :
                        /\ \A j \in 1..Len(entries) : entries[j].score <= entries[i].score
                        /\ \A j \in (i + 1)..Len(entries) : entries[j].score < entries[i].score
         IN <<entries[best]>>
            \o SortedByScoreLastFirst([k \in 1..(Len(entries) - 1) |->
                                          IF k < best THEN entries[k] ELSE entries[k + 1]])

RECURSIVE SortedByScore(_)
\* sorted(..., key=score, reverse=True): descending, entries of equal score
\* in the order they had
SortedByScore(entries) ==
    IF entries = <<>> THEN <<>>
    ELSE LET best == CHOOSE i \in 1..Len(entries) :
                        /\ \A j \in 1..Len(entries) : entries[j].score <= entries[i].score
                        /\ \A j \in 1..(i - 1) : entries[j].score < entries[i].score
         IN <<entries[best]>>
            \o SortedByScore([k \in 1..(Len(entries) - 1) |->
                                 IF k < best THEN entries[k] ELSE entries[k + 1]])

\* InitRetrieval with a dict that holds an entry of every project file
InitRetrievalSeeded ==
    /\ ReactAtRest
    /\ BuildAtRest
    /\ DiffAtRest
    /\ AgentAtRest
    /\ ExecutorAtRest
    /\ IndexAtRest
    /\ semantic \in {l \in ResultLists(SemanticScores) : Descending(l)}
    /\ keyword \in {l \in ResultLists({KeywordScore(m) : m \in MatchCounts}) :
                       Descending(l)}
    /\ hints \in {l \in ResultLists({HintScore}) : InFileOrder(l)}
    /\ top_k \in 1..MaxTopK
    /\ merged = [i \in 1..Len(RetrievedPaths) |->
                    [file_path |-> RetrievedPaths[i], score |-> 0, signals |-> <<>>]]
    /\ stage = <<"semantic", 1>>
    /\ ranked = <<>>

InitRetrieval ==
    /\ ReactAtRest
    /\ BuildAtRest
    /\ DiffAtRest
    /\ AgentAtRest
    /\ ExecutorAtRest
    /\ IndexAtRest
    /\ semantic \in {l \in ResultLists(SemanticScores) : Descending(l)}
    /\ keyword \in {l \in ResultLists({KeywordScore(m) : m \in MatchCounts}) :
                       Descending(l)}
    /\ hints \in {l \in ResultLists({HintScore}) : InFileOrder(l)}
    /\ top_k \in 1..MaxTopK
    /\ merged = <<>>
    /\ stage = <<"semantic", 1>>
    /\ ranked = <<>>

\* one turn of `for r in semantic`
AddSemantic ==
    /\ stage[1] = "semantic" /\ stage[2] <= Len(semantic)
    /\ merged' = add_result(merged, semantic[stage[2]], SEMANTIC_WEIGHT, "semantic")
    /\ stage' = <<"semantic", stage[2] + 1>>
    /\ UNCHANGED <<executorVars, indexVars, agentVars, diffVars, buildVars, reactVars, semantic, keyword, hints, top_k, ranked>>

\* one turn of `for r in keyword`
AddKeyword ==
    /\ stage[1] = "keyword" /\ stage[2] <= Len(keyword)
    /\ merged' = add_result(merged, keyword[stage[2]], KEYWORD_WEIGHT, "keyword")
    /\ stage' = <<"keyword", stage[2] + 1>>
    /\ UNCHANGED <<executorVars, indexVars, agentVars, diffVars, buildVars, reactVars, semantic, keyword, hints, top_k, ranked>>

\* one turn of `for r in hints`
AddHint ==
    /\ stage[1] = "hint" /\ stage[2] <= Len(hints)
    /\ merged' = add_result(merged, hints[stage[2]], HINT_WEIGHT, "hint")
    /\ stage' = <<"hint", stage[2] + 1>>
    /\ UNCHANGED <<executorVars, indexVars, agentVars, diffVars, buildVars, reactVars, semantic, keyword, hints, top_k, ranked>>

\* a loop is through: the next loop begins
NextLoop ==
    /\ \/ stage[1] = "semantic" /\ stage[2] > Len(semantic) /\ stage' = <<"keyword", 1>>
       \/ stage[1] = "keyword" /\ stage[2] > Len(keyword) /\ stage' = <<"hint", 1>>
       \/ stage[1] = "hint" /\ stage[2] > Len(hints) /\ stage' = <<"sort", 0>>
    /\ UNCHANGED <<executorVars, indexVars, agentVars, diffVars, buildVars, reactVars, semantic, keyword, hints, top_k, merged,
                   ranked>>

\* sorted_results[:top_k] is returned
SortAndReturn ==
    /\ stage[1] = "sort"
    /\ ranked' = << Take(SortedByScore(merged), top_k) >>
    /\ stage' = <<"done", 0>>
    /\ UNCHANGED <<executorVars, indexVars, agentVars, diffVars, buildVars, reactVars, semantic, keyword, hints, top_k, merged>>

NextRetrieval ==
    \/ AddSemantic
    \/ AddKeyword
    \/ AddHint
    \/ NextLoop
    \/ SortAndReturn

SpecRetrieval == InitRetrieval /\ [][NextRetrieval]_vars

----------------------------------------------------------------------------
\* Properties of the retrieval fusion

\* the score the retriever of `results` gave to `path`, 0 when it did not
\* return the path
SignalScore(results, path) ==
    IF \E i \in 1..Len(results) : results[i].file_path = path
    THEN (CHOOSE r \in Range(results) : r.file_path = path).score
    ELSE 0

\* the retriever of `results` returned `path`
Returns(results, path) == \E i \in 1..Len(results) : results[i].file_path = path

\* C19: the ranked list _merge_results returns, which is the list retrieve
\* returns, has at most one entry per file path, whatever the semantic,
\* keyword and hint results are.
C19_OneEntryPerPath ==
    ranked # <<>> =>
        \A i, j \in 1..Len(ranked[1]) :
            i # j => ranked[1][i].file_path # ranked[1][j].file_path

\* C19 witness: a file returned by the three retrievers is in the ranked
\* list beside another file
C19_Witness ==
    /\ ranked # <<>>
    /\ Len(ranked[1]) = 2
    /\ \E i \in 1..2 :
          /\ Returns(semantic, ranked[1][i].file_path)
          /\ Returns(keyword, ranked[1][i].file_path)
          /\ Returns(hints, ranked[1][i].file_path)

\* C20: the score of every path of the ranked list is the sum, over the
\* signals whose retriever returned the path, of signal score times weight,
\* with the weights semantic 0.5, keyword 0.3 and hint 0.8 (semantic 0.8 and
\* keyword 0.5 give 0.55); its signals field names those signals and no
\* other.
C20_ScoreIsWeightedSum ==
    ranked # <<>> =>
        \A i \in 1..Len(ranked[1]) :
            LET e == ranked[1][i] IN
            /\ e.score = SignalScore(semantic, e.file_path) * 5
                         + SignalScore(keyword, e.file_path) * 3
                         + SignalScore(hints, e.file_path) * 8
            /\ e.signals =
                  (IF Returns(semantic, e.file_path) THEN <<"semantic">> ELSE <<>>)
                  \o (IF Returns(keyword, e.file_path) THEN <<"keyword">> ELSE <<>>)
                  \o (IF Returns(hints, e.file_path) THEN <<"hint">> ELSE <<>>)
            /\ (SignalScore(semantic, e.file_path) = 8
                /\ SignalScore(keyword, e.file_path) = 5
                /\ ~Returns(hints, e.file_path)) => e.score = 55

\* C20 witness: a path with semantic score 0.8 and keyword score 0.5 and no
\* hint is in the ranked list with score 0.55
C20_Witness ==
    /\ ranked # <<>>
    /\ \E i \in 1..Len(ranked[1]) :
          /\ SignalScore(semantic, ranked[1][i].file_path) = 8
          /\ SignalScore(keyword, ranked[1][i].file_path) = 5
          /\ ~Returns(hints, ranked[1][i].file_path)
          /\ ranked[1][i].score = 55
          /\ ranked[1][i].signals = <<"semantic", "keyword">>

\* the fused score of a path, from the results of the three retrievers
FusedScore(path) ==
    SignalScore(semantic, path) * 5 + SignalScore(keyword, path) * 3
    + SignalScore(hints, path) * 8

\* the paths some retriever returned
ReturnedPaths ==
    {p \in Range(RetrievedPaths) :
        Returns(semantic, p) \/ Returns(keyword, p) \/ Returns(hints, p)}

\* the paths of the ranked list
RankedPaths == {ranked[1][i].file_path : i \in 1..Len(ranked[1])}

\* C21: the ranked list has at most top_k entries, in non-increasing order of
\* fused score, and no path that a retriever returned and the list leaves out
\* has a fused score above the score of a path of the list.
C21_TopKByScore ==
    ranked # <<>> =>
        /\ Len(ranked[1]) <= top_k
        /\ \A i \in 1..(Len(ranked[1]) - 1) :
              FusedScore(ranked[1][i].file_path) >= FusedScore(ranked[1][i + 1].file_path)
        /\ \A out \in ReturnedPaths \ RankedPaths, in \in RankedPaths :
              FusedScore(out) <= FusedScore(in)

\* C21 witness: three paths were returned with three different fused scores,
\* the one with the highest was added last, and the list of two leaves one out
C21_Witness ==
    /\ ranked # <<>>
    /\ top_k = 2
    /\ Len(ranked[1]) = 2
    /\ Cardinality(ReturnedPaths) = 3
    /\ Cardinality({FusedScore(p) : p \in ReturnedPaths}) = 3
    /\ merged[3].file_path = ranked[1][1].file_path

\* C22: every entry of the ranked list names at least one signal among
\* semantic, keyword and hint, and a project file that none of the three
\* retrievers returned is not in the list.
C22_NoEntryWithoutSignal ==
    ranked # <<>> =>
        /\ \A i \in 1..Len(ranked[1]) :
              /\ ranked[1][i].signals # <<>>
              /\ Range(ranked[1][i].signals) \subseteq {"semantic", "keyword", "hint"}
        /\ RankedPaths \subseteq ReturnedPaths

\* C22 witness: a project file was returned by no retriever, another by one
\* retriever only, and the list has room for more entries than it holds
C22_Witness ==
    /\ ranked # <<>>
    /\ Len(ranked[1]) = 1
    /\ top_k = 2
    /\ Cardinality(ReturnedPaths) = 1
    /\ Len(ranked[1][1].signals) = 1

----------------------------------------------------------------------------
\* Agent pipeline: run_agent with parse_intent and create_plan

\* Bounds of the model
MaxRetrieved == 4

\* JSON values: the type of the value and what it holds
Absent == [t |-> "absent", v |-> <<>>]
JNull == [t |-> "null", v |-> <<>>]
JStr(x) == [t |-> "str", v |-> <<x>>]
JList(items) == [t |-> "list", v |-> items]

\* dict.get(key, default), given the value under the key
Get(value, default) == IF value.t = "absent" THEN default ELSE value

\* a function returned a value, or raised an exception of a class
Return(value) == [raised |-> <<>>, value |-> <<value>>]
Raises(class) == [raised |-> <<class>>, value |-> <<>>]

\* the text of a response: a JSON document or other text, in a markdown
\* code fence or not
Content(fence, kind, object) == [fence |-> fence, kind |-> kind, object |-> object]

\* strips the markdown code fence
_extract_json(content) == [content EXCEPT !.fence = FALSE]

\* json.loads: fenced text and text that is no JSON document do not decode
json_loads(content) ==
    IF content.fence \/ content.kind = "text"
    THEN Raises("JSONDecodeError")
    ELSE Return([kind |-> content.kind, object |-> content.object])

\* the instruction of the request, shorter than 100 characters
Instruction == <<"make the footer dark">>

\* the values of the enums IntentType and Complexity
IntentType == {"feature", "bugfix", "refactor", "style", "docs", "unknown"}
Complexity == {"low", "medium", "high"}

\* the keys of the classification result the model lets the service set
IntentObjects ==
    [intent_type : {Absent, JNull, JStr("feature"), JStr("rewrite")},
     complexity : {Absent, JStr("low"), JStr("huge")},
     file_hints : {Absent, JNull, JList(<<"App">>)},
     component_hints : {Absent, JList(<<"Footer">>)}]
NoIntentFields ==
    [intent_type |-> Absent, complexity |-> Absent, file_hints |-> Absent,
     component_hints |-> Absent]

\* the contents the classification service can return
IntentContents ==
    {Content(FALSE, "object", o) : o \in IntentObjects}
    \cup {Content(TRUE, "object", NoIntentFields)}
    \cup {Content(FALSE, k, NoIntentFields) : k \in {"text", "array", "number"}}

\* the ParsedIntent of the except clause
DefaultIntent ==
    [intent_type |-> "unknown", complexity |-> "medium", summary |-> Instruction,
     file_hints |-> JList(<<>>), component_hints |-> JList(<<>>),
     keywords |-> JList(<<>>), requires_new_files |-> FALSE, confidence |-> 0]

\* the enum member of a value: the constructor raises ValueError otherwise
IsMember(value, enum) == value.t = "str" /\ value.v[1] \in enum

\* parse_intent from the content of the response on
parse_intent(content) ==
    LET loaded == json_loads(_extract_json(content))
    IN IF loaded.raised # <<>>
       THEN Return(DefaultIntent)
       ELSE IF loaded.value[1].kind # "object"
       THEN Raises("AttributeError")
       ELSE LET object == loaded.value[1].object
                intent_type == Get(object.intent_type, JStr("unknown"))
                complexity == Get(object.complexity, JStr("medium"))
                file_hints == Get(object.file_hints, JList(<<>>))
                component_hints == Get(object.component_hints, JList(<<>>))
            IN IF ~IsMember(intent_type, IntentType) \/ ~IsMember(complexity, Complexity)
               THEN Return(DefaultIntent)
               ELSE IF file_hints.t # "list" \/ component_hints.t # "list"
               THEN Raises("TypeError")
               ELSE Return([intent_type |-> intent_type.v[1],
                            complexity |-> complexity.v[1],
                            summary |-> Instruction,
                            file_hints |-> file_hints,
                            component_hints |-> component_hints,
                            keywords |-> JList(<<>>),
                            requires_new_files |-> FALSE,
                            confidence |-> 5])

\* the source files of a project
AgentPaths == <<"src/App.jsx", "src/Footer.jsx", "src/index.css", "src/main.jsx">>
AgentProjects ==
    { [p \in Range(AgentPaths) |-> "original"],
      [p \in Range(AgentPaths) |-> IF p = "src/index.css" THEN "undecodable"
                                                            ELSE "original"],
      [p \in Range(AgentPaths) \ {"src/main.jsx"} |-> "original"] }

\* the lists retrieve_relevant_files can return, best first
RECURSIVE SubLists(_)
SubLists(list) ==
    IF list = <<>> THEN {<<>>}
    ELSE LET rest == SubLists(Tail(list))
         IN rest \cup {<<Head(list)>> \o l : l \in rest}
RetrievedLists == {l \in SubLists(AgentPaths) : Len(l) <= MaxRetrieved}

\* the step objects and the keys of the planning result the model lets the
\* service set
StepObject(file_path) ==
    [step_number |-> Absent, action |-> Absent, file_path |-> JStr(file_path),
     description |-> Absent, depends_on |-> Absent]
PlanObjects ==
    [steps : {Absent, JNull, JList(<<StepObject("src/App.jsx")>>)},
     files_to_modify : {Absent, JNull, JList(<<>>), JList(<<"src/App.jsx">>)},
     files_to_create : {Absent, JNull, JList(<<"src/Nav.jsx">>)}]
NoPlanFields ==
    [steps |-> Absent, files_to_modify |-> Absent, files_to_create |-> Absent]

\* the contents the planning service can return
PlanContents ==
    {Content(FALSE, "object", o) : o \in PlanObjects}
    \cup {Content(TRUE, "object", NoPlanFields)}
    \cup {Content(FALSE, k, NoPlanFields) : k \in {"text", "array", "number"}}

ExecutionStep(step_number, action, file_path, description, depends_on) ==
    [step_number |-> step_number, action |-> action, file_path |-> file_path,
     description |-> description, depends_on |-> depends_on]

ExecutionPlan(steps, files_to_modify, files_to_create, estimated_changes, reasoning) ==
    [steps |-> steps, files_to_modify |-> files_to_modify,
     files_to_create |-> files_to_create, estimated_changes |-> estimated_changes,
     reasoning |-> reasoning]

\* the plan of the except clause: modify the top retrieved files
FallbackPlan(retrieved_files) ==
    LET files == Take(retrieved_files, 3)
    IN ExecutionPlan(
           [i \in 1..Len(files) |->
               ExecutionStep(i, "modify", files[i],
                             <<"Apply changes to ", files[i]>>, <<>>)],
           JList(files), JList(<<>>), 10,
           "Fallback plan: modify top retrieved files")

\* create_plan from the content of the response on
create_plan(content, retrieved_files) ==
    LET loaded == json_loads(_extract_json(content))
    IN IF loaded.raised # <<>>
       THEN Return(FallbackPlan(retrieved_files))
       ELSE IF loaded.value[1].kind # "object"
       THEN Raises("AttributeError")
       ELSE LET object == loaded.value[1].object
                steps == Get(object.steps, JList(<<>>))
            IN IF steps.t # "list"
               THEN Raises("TypeError")
               ELSE Return(ExecutionPlan(
                        [i \in 1..Len(steps.v) |->
                            ExecutionStep(Get(steps.v[i].step_number, 1),
                                          Get(steps.v[i].action, JStr("modify")).v[1],
                                          Get(steps.v[i].file_path, JStr("")).v[1],
                                          Get(steps.v[i].description, JStr("")).v[1],
                                          Get(steps.v[i].depends_on, JList(<<>>)).v)],
                        Get(object.files_to_modify, JList(<<>>)),
                        Get(object.files_to_create, JList(<<>>)),
                        10, ""))

\* target_files of execute_plan
TargetFiles(p) == Range(p.files_to_modify.v) \cup Range(p.files_to_create.v)

\* what execute_plan can return for a plan: success with the files it
\* changed, or failure, with the files a failed revert left changed
ExecutionOutcomes(p) ==
    {[success |-> TRUE, diffs |-> <<[file_path |-> f, diff |-> "diff"]>>,
      files_modified |-> <<f>>, total_tokens |-> 1, error |-> <<>>, written |-> {f}] :
        f \in TargetFiles(p) \cup {AgentPaths[1]}}
    \cup
    {[success |-> FALSE, diffs |-> <<>>, files_modified |-> <<>>, total_tokens |-> 1,
      error |-> <<"Failed after retries">>, written |-> w] :
        w \in {{}, {AgentPaths[1]}}}

AgentStep(name, status) == [name |-> name, status |-> status]

AgentResult(success, ds, files_modified, message, tokens) ==
    [success |-> success, diffs |-> ds, files_modified |-> files_modified,
     message |-> message, total_tokens |-> tokens, intent |-> intent,
     plan |-> agent_plan]

\* a step failed: log it and return the failed result
StepFailed(name, message) ==
    /\ agent_trace' = Append(agent_trace, AgentStep(name, "failed"))
    /\ agent_result' = << AgentResult(FALSE, <<>>, <<>>, message, 0) >>
    /\ step' = "returned"

InitAgent ==
    /\ ReactAtRest
    /\ BuildAtRest
    /\ DiffAtRest
    /\ ExecutorAtRest
    /\ IndexAtRest
    /\ RetrievalAtRest
    /\ step = "parse_intent"
    /\ intent_content = <<>>
    /\ intent = <<>>
    /\ retrieved = <<>>
    /\ plan_content = <<>>
    /\ agent_plan = <<>>
    /\ project_files \in AgentProjects
    /\ files_read = <<>>
    /\ agent_trace = <<>>
    /\ agent_result = <<>>

\* step 1: parse_intent
ParseIntent(content) ==
    /\ step = "parse_intent"
    /\ intent_content' = <<content>>
    /\ LET out == parse_intent(content)
       IN IF out.raised = <<>>
          THEN /\ intent' = out.value
               /\ agent_trace' = Append(agent_trace, AgentStep("parse_intent", "completed"))
               /\ step' = "retrieve_files"
               /\ UNCHANGED agent_result
          ELSE /\ StepFailed("parse_intent", <<"Intent parsing failed: ", out.raised[1]>>)
               /\ UNCHANGED intent
    /\ UNCHANGED <<executorVars, indexVars, retrievalVars, diffVars, buildVars, reactVars, retrieved, plan_content,
                   agent_plan, project_files, files_read>>

\* step 2: retrieve_relevant_files raises
RetrieveFilesRaises ==
    /\ step = "retrieve_files"
    /\ StepFailed("retrieve_files", <<"File retrieval failed: ", "APIError">>)
    /\ UNCHANGED <<executorVars, indexVars, retrievalVars, diffVars, buildVars, reactVars, intent_content, intent,
                   retrieved, plan_content, agent_plan, project_files, files_read>>

\* RetrieveFiles that goes on when nothing was retrieved
RetrieveFilesGoesOn(files) ==
    /\ step = "retrieve_files"
    /\ retrieved' = files
    /\ agent_trace' = Append(agent_trace, AgentStep("retrieve_files", "completed"))
    /\ step' = "create_plan"
    /\ UNCHANGED agent_result
    /\ UNCHANGED <<executorVars, indexVars, retrievalVars, diffVars, buildVars, reactVars, intent_content, intent,
                   plan_content, agent_plan, project_files, files_read>>

\* step 2: retrieve_relevant_files returns
RetrieveFiles(files) ==
    /\ step = "retrieve_files"
    /\ retrieved' = files
    /\ agent_trace' = Append(agent_trace, AgentStep("retrieve_files", "completed"))
    /\ IF files = <<>>
       THEN /\ agent_result' = << AgentResult(FALSE, <<>>, <<>>,
                                              "No relevant files found", 0) >>
            /\ step' = "returned"
       ELSE /\ step' = "create_plan"
            /\ UNCHANGED agent_result
    /\ UNCHANGED <<executorVars, indexVars, retrievalVars, diffVars, buildVars, reactVars, intent_content, intent,
                   plan_content, agent_plan, project_files, files_read>>

\* step 3: create_plan
CreatePlan(content) ==
    /\ step = "create_plan"
    /\ plan_content' = <<content>>
    /\ LET out == create_plan(content, retrieved)
       IN IF out.raised = <<>>
          THEN /\ agent_plan' = out.value
               /\ agent_trace' = Append(agent_trace, AgentStep("create_plan", "completed"))
               /\ step' = "read_files"
               /\ UNCHANGED agent_result
          ELSE /\ StepFailed("create_plan", <<"Planning failed: ", out.raised[1]>>)
               /\ UNCHANGED agent_plan
    /\ UNCHANGED <<executorVars, indexVars, retrievalVars, diffVars, buildVars, reactVars, intent_content, intent,
                   retrieved, project_files, files_read>>

\* files_needed of step 4
files_needed == Range(agent_plan[1].files_to_modify.v) \cup Range(retrieved)

\* step 4: read the files; a files_to_modify that is no list and a file that
\* does not decode raise out of run_agent
ReadFiles ==
    /\ step = "read_files"
    /\ IF \/ agent_plan[1].files_to_modify.t # "list"
          \/ \E f \in files_needed \cap DOMAIN project_files :
                project_files[f] = "undecodable"
       THEN /\ step' = "raised"
            /\ UNCHANGED <<files_read, agent_trace>>
       ELSE /\ files_read' = << [f \in files_needed \cap DOMAIN project_files |->
                                    project_files[f]] >>
            /\ agent_trace' = Append(agent_trace, AgentStep("read_files", "completed"))
            /\ step' = "execute"
    /\ UNCHANGED <<executorVars, indexVars, retrievalVars, diffVars, buildVars, reactVars, intent_content, intent,
                   retrieved, plan_content, agent_plan, project_files, agent_result>>

\* step 5: execute_plan raises on a files_to_create that is no list
ExecuteRaises ==
    /\ step = "execute"
    /\ agent_plan[1].files_to_create.t # "list"
    /\ StepFailed("execute", <<"Execution failed: ", "TypeError">>)
    /\ UNCHANGED <<executorVars, indexVars, retrievalVars, diffVars, buildVars, reactVars, intent_content, intent,
                   retrieved, plan_content, agent_plan, project_files, files_read>>

\* step 5: execute_plan returns, and run_agent builds the final result
Execute(exec_result) ==
    /\ step = "execute"
    /\ agent_plan[1].files_to_create.t = "list"
    /\ project_files' = [f \in DOMAIN project_files \cup exec_result.written |->
                            IF f \in exec_result.written THEN "modified"
                            ELSE project_files[f]]
    /\ agent_trace' = Append(agent_trace,
                          AgentStep("execute", IF exec_result.success THEN "completed"
                                                                      ELSE "failed"))
    /\ agent_result' = << AgentResult(exec_result.success, exec_result.diffs,
                              exec_result.files_modified,
                              IF exec_result.success
                              THEN <<"Applied changes to ", "1", " files">>
                              ELSE exec_result.error,
                              exec_result.total_tokens) >>
    /\ step' = "returned"
    /\ UNCHANGED <<executorVars, indexVars, retrievalVars, diffVars, buildVars, reactVars, intent_content, intent,
                   retrieved, plan_content, agent_plan, files_read>>

NextAgent ==
    \/ \E content \in IntentContents : ParseIntent(content)
    \/ RetrieveFilesRaises
    \/ \E files \in RetrievedLists : RetrieveFiles(files)
    \/ \E content \in PlanContents : CreatePlan(content)
    \/ ReadFiles
    \/ ExecuteRaises
    \/ \E exec_result \in IF step = "execute" THEN ExecutionOutcomes(agent_plan[1])
                                               ELSE {} : Execute(exec_result)

SpecAgent == InitAgent /\ [][NextAgent]_vars

----------------------------------------------------------------------------
\* Properties of run_agent

\* the content is no JSON object, or names a type or a complexity that the
\* enums do not have
MalformedIntent(content) ==
    \/ content.kind # "object"
    \/ content.object.intent_type.t \notin {"absent", "str"}
    \/ /\ content.object.intent_type.t = "str"
       /\ content.object.intent_type.v[1] \notin IntentType
    \/ /\ content.object.complexity.t = "str"
       /\ content.object.complexity.v[1] \notin Complexity

\* C23: for every malformed output of the classification service, step 1
\* completes with the default intent and run_agent goes on to retrieval.
C23_MalformedClassificationDegrades ==
    (intent_content # <<>> /\ MalformedIntent(intent_content[1])) =>
        /\ intent = <<DefaultIntent>>
        /\ agent_trace[1] = AgentStep("parse_intent", "completed")
        /\ (agent_result # <<>> => Len(agent_trace) >= 2)

\* the plan was handed to execute_plan
HandedToExecutor ==
    \/ step = "execute"
    \/ \E i \in 1..Len(agent_trace) : agent_trace[i].name = "execute"

\* C24: when a file was retrieved, the plan handed to execute_plan has a
\* target file, and for a planning output that is no JSON object the plan is
\* the fallback plan: the first min(3, n) retrieved files as modify steps
\* without dependencies, nothing to create.
C24_ExecutorGetsTargets ==
    /\ (HandedToExecutor /\ retrieved # <<>>) => TargetFiles(agent_plan[1]) # {}
    /\ (plan_content # <<>> /\ plan_content[1].kind # "object") =>
          /\ agent_plan # <<>>
          /\ agent_plan[1].files_to_modify.v
                = [i \in 1..(IF Len(retrieved) < 3 THEN Len(retrieved) ELSE 3) |->
                      retrieved[i]]
          /\ agent_plan[1].files_to_create.v = <<>>
          /\ Len(agent_plan[1].steps) = Len(agent_plan[1].files_to_modify.v)
          /\ \A i \in 1..Len(agent_plan[1].steps) :
                /\ agent_plan[1].steps[i].action = "modify"
                /\ agent_plan[1].steps[i].file_path = retrieved[i]
                /\ agent_plan[1].steps[i].depends_on = <<>>

\* the steps of run_agent in their order
StepNames == <<"parse_intent", "retrieve_files", "create_plan", "read_files", "execute">>

\* the steps ran in the order of run_agent, each after the one before it
\* completed
RanInOrder ==
    /\ Len(agent_trace) <= Len(StepNames)
    /\ \A i \in 1..Len(agent_trace) : agent_trace[i].name = StepNames[i]
    /\ \A i \in 1..(Len(agent_trace) - 1) : agent_trace[i].status = "completed"

\* a step failed, or retrieval returned no file
Stopped ==
    \/ agent_trace # <<>> /\ agent_trace[Len(agent_trace)].status = "failed"
    \/ Len(agent_trace) >= 2 /\ retrieved = <<>>

\* C25: the steps run in the order classification, retrieval, planning,
\* execution, each after the one before it completed; after a failed step or
\* an empty retrieval run_agent has returned a result with success = false and
\* no further step runs; the project files change in the execution step only.
C25_StagesInOrder ==
    /\ [](RanInOrder /\ (Stopped => /\ step = "returned"
                                    /\ agent_result # <<>>
                                    /\ ~agent_result[1].success))
    /\ [][/\ Stopped => agent_trace' = agent_trace
          /\ step # "execute" => project_files' = project_files]_vars

\* C25 witness: planning failed after classification and retrieval completed,
\* and run_agent returned the failed result
C25_Witness ==
    /\ Len(agent_trace) = 3
    /\ agent_trace[3].status = "failed"
    /\ retrieved # <<>>
    /\ agent_result # <<>>
    /\ ~agent_result[1].success

----------------------------------------------------------------------------
\* execute_plan under cancellation of its task

\* the task is cancelled while execute_plan is suspended in one of its two
\* awaits, the generation call and validate_build: CancelledError is raised
\* there, and no except clause of execute_plan or validate_build catches it
Cancel ==
    /\ pc \in {"generate", "build"}
    /\ pc' = "cancelled"
    /\ trace' = Append(trace, Call("cancel", FALSE, <<pc>>))
    /\ UNCHANGED <<otherVars, backups, plan, max_retries, run_validation, has_node_modules,
                   file_contents, fs, tracked, attempt, attempts, total_tokens,
                   last_error, user_prompt, modifications, usage, diffs,
                   validation_result, fs_before_apply, result>>

NextCancel ==
    \/ Next
    \/ Cancel

SpecCancel == Init /\ [][NextCancel]_vars

\* C26: a cancellation takes effect in the generation call only: a cancelled
\* run was never cut off between the apply of a patch and the end of its
\* build validation.
C26_CancelOnlyAtGeneration ==
    pc = "cancelled" => trace[Len(trace) - 1].op = "generate"

----------------------------------------------------------------------------
\* Patch engine: generate_unified_diff and apply_with_git on contents given
\* character by character

\* Bounds of the model
MaxContentLen == 3

\* the contents: up to MaxContentLen characters, "\n" among them
Chars == {"a", "b", "\n"}
TextContents == UNION {[1..n -> Chars] : n \in 0..MaxContentLen}
Filenames == {"src/App.jsx", "src/Footer.jsx"}

RECURSIVE splitlines(_)
\* str.splitlines(keepends=True)
splitlines(content) ==
    IF content = <<>> THEN <<>>
    ELSE LET ends == {i \in 1..Len(content) : content[i] = "\n"}
             n == IF ends = {} THEN Len(content)
                  ELSE CHOOSE i \in ends : \A j \in ends : i <= j
         IN <<SubSeq(content, 1, n)>> \o splitlines(SubSeq(content, n + 1, Len(content)))

\* the lines with "\n" added to the last one when it does not end with it
EndWithNewline(lines) ==
    IF lines # <<>> /\ lines[Len(lines)][Len(lines[Len(lines)])] # "\n"
    THEN [lines EXCEPT ![Len(lines)] = @ \o <<"\n">>]
    ELSE lines

\* difflib.unified_diff that writes the header and a hunk for equal inputs too
unified_diffOfEqual(a, b, fromfile, tofile) ==
    << [fromfile |-> fromfile, tofile |-> tofile, preimage |-> a, postimage |-> b] >>

\* difflib.unified_diff with three lines of context: nothing for equal
\* inputs, else the header and, the inputs having at most four lines, one
\* hunk over the whole file: its context and removed lines are the lines of
\* a, its context and added lines the lines of b
unified_diff(a, b, fromfile, tofile) ==
    IF a = b THEN <<>>
    ELSE << [fromfile |-> fromfile, tofile |-> tofile, preimage |-> a, postimage |-> b] >>

\* generate_unified_diff: "" is the empty text
generate_unified_diff_text(original_content, modified_content, filename) ==
    unified_diff(EndWithNewline(splitlines(original_content)),
                 EndWithNewline(splitlines(modified_content)),
                 <<"a/", filename>>, <<"b/", filename>>)

RECURSIVE Concat(_)
\* "".join(lines)
Concat(lines) == IF lines = <<>> THEN <<>> ELSE Head(lines) \o Concat(Tail(lines))

\* git apply of the patch of one file: the file has to hold the context and
\* removed lines of the hunk, byte for byte, and gets its context and added
\* lines; a hunk without old lines also applies to a file that is not there
git_apply(patch, file) ==
    IF \/ file # <<>> /\ file[1] = Concat(patch.preimage)
       \/ file = <<>> /\ patch.preimage = <<>>
    THEN [success |-> TRUE, file |-> <<Concat(patch.postimage)>>]
    ELSE [success |-> FALSE, file |-> file]

\* apply_with_git of a text: a blank text is a success that applies nothing
apply_text_with_git(combined_diff, file) ==
    IF combined_diff = <<>> THEN [success |-> TRUE, file |-> file]
    ELSE git_apply(combined_diff[1], file)

InitDiff ==
    /\ ReactAtRest
    /\ BuildAtRest
    /\ AgentAtRest
    /\ ExecutorAtRest
    /\ IndexAtRest
    /\ RetrievalAtRest
    /\ diff_original \in TextContents
    /\ diff_modified \in TextContents
    /\ diff_filename \in Filenames
    /\ disk_file \in {<<diff_original>>} \cup (IF diff_original = <<>> THEN {<<>>} ELSE {})
    /\ patch_text = <<>>
    /\ apply_success = <<>>
    /\ diff_pc = "diff"

GenerateDiff ==
    /\ diff_pc = "diff"
    /\ patch_text' = << generate_unified_diff_text(diff_original, diff_modified,
                                                   diff_filename) >>
    /\ diff_pc' = "apply"
    /\ UNCHANGED <<executorVars, indexVars, retrievalVars, agentVars, buildVars, reactVars, diff_original,
                   diff_modified, diff_filename, disk_file, apply_success>>

ApplyDiff ==
    /\ diff_pc = "apply"
    /\ LET apply_result == apply_text_with_git(patch_text[1], disk_file)
       IN /\ disk_file' = apply_result.file
          /\ apply_success' = <<apply_result.success>>
    /\ diff_pc' = "done"
    /\ UNCHANGED <<executorVars, indexVars, retrievalVars, agentVars, buildVars, reactVars, diff_original,
                   diff_modified, diff_filename, patch_text>>

NextDiff ==
    \/ GenerateDiff
    \/ ApplyDiff

SpecDiff == InitDiff /\ [][NextDiff]_vars

\* C27: the diff of a content with itself is the empty text, for every
\* content and path.
C27_DiffOfEqualIsEmpty ==
    (patch_text # <<>> /\ diff_original = diff_modified) => patch_text[1] = <<>>

\* C27 witness: the diff of a content of two lines without a final newline
\* with itself was generated
C27_Witness ==
    /\ patch_text # <<>>
    /\ diff_original = diff_modified
    /\ diff_original = <<"a", "\n", "b">>

\* the content of the file in the working tree, "" when it is not there
DiskContent == IF disk_file = <<>> THEN <<>> ELSE disk_file[1]

\* C28: applying diff(original, modified) to original gives modified exactly,
\* for all pairs of contents, those without a final newline and the empty one
\* included.
C28_DiffThenApplyGivesModified ==
    diff_pc = "done" => DiskContent = diff_modified

----------------------------------------------------------------------------
\* Properties of the ExecutionResult

\* C29: in every ExecutionResult execute_plan returns, on success and on
\* exhaustion, each element of diffs is a record with the fields file_path
\* and diff.
C29_DiffsAreRecords ==
    Returned =>
        \A i \in 1..Len(result[1].diffs) :
            /\ result[1].diffs[i].type = "dict"
            /\ DOMAIN result[1].diffs[i].value = {"file_path", "diff"}

\* the file paths of the diffs of the result, in order
PathsOfDiffs ==
    [i \in 1..Len(result[1].diffs) |-> result[1].diffs[i].value.file_path]

\* the files of the last response whose content satisfies Changed
GeneratedFiles(Changed(_, _)) ==
    {modifications[1][i].file : i \in {j \in 1..Len(modifications[1]) :
        Changed(GetContent(file_contents, modifications[1][j].file),
                modifications[1][j].content)}}

\* the contents differ
Differs(original, content) == content # original

\* the content is not empty and differs from the original in more than a
\* final newline
DiffersInALine(original, content) ==
    /\ content # Empty
    /\ content # original
    /\ {content, original} # {Original, OriginalNoEol}

----------------------------------------------------------------------------
\* Properties of the files of the result and of the working tree

\* C31: when execute_plan returns success = true, every path of
\* plan.files_to_create is in files_modified, also when the response names a
\* required file with an empty content.
C31_CreatedFilesAreModified ==
    (Returned /\ result[1].success) =>
        Range(plan.files_to_create) \subseteq Range(result[1].files_modified)

\* the source files of the project before the call
TreeBeforeCall == (AppPath :> Original)

\* C32: when execute_plan returns success = false, the source files of the
\* project are as they were before the call, for every sequence of apply,
\* build and revert outcomes.
C32_FailureLeavesTreeAsBefore ==
    (Returned /\ ~result[1].success) => fs = TreeBeforeCall

\* C33: when apply is invoked in an attempt k >= 2, every file of the diffs
\* of the attempt holds in the working tree the original content of
\* file_contents the diff was computed against.
C33_ApplySeesOriginalContent ==
    (pc = "apply" /\ attempt >= 2) =>
        \A i \in 1..Len(diffs) :
            GetContent(fs, diffs[i].file_path)
                = GetContent(file_contents, diffs[i].file_path)

\* a pre-apply check failed the last attempt: the response parsed and no
\* collaborator was called after the generation call
FailedPreApply ==
    /\ pc = "loop"
    /\ attempts # <<>>
    /\ modifications # <<>>
    /\ trace[Len(trace)].op = "generate"

\* what a response violates, told from its files and contents
ViolatesNonEmpty(mods) == mods = <<>>
ViolatesCompleteness(mods) ==
    \E i \in 1..Len(plan.files_to_create) :
        \A j \in 1..Len(mods) : mods[j].file # plan.files_to_create[i]
ViolatesRelativeImports(mods) ==
    \E j \in 1..Len(mods) :
        \/ mods[j].content = UsesMissingFile
        \/ /\ mods[j].content = UsesFooter
           /\ FooterPath \notin DOMAIN fs
           /\ \A k \in 1..Len(mods) : mods[k].file # FooterPath
ViolatesPackages(mods) ==
    /\ has_node_modules
    /\ \E j \in 1..Len(mods) : mods[j].content \in {UsesBadPackage, UsesMissingFile}
ViolatesChange(mods) ==
    \A j \in 1..Len(mods) :
        \/ mods[j].content = Empty
        \/ mods[j].content = GetContent(file_contents, mods[j].file)
        \/ {mods[j].content, GetContent(file_contents, mods[j].file)}
              = {Original, OriginalNoEol}

\* the first words of the error of the earliest check the response violates
EarliestError(mods) ==
    CASE ViolatesNonEmpty(mods) -> "No modifications returned"
      [] ~ViolatesNonEmpty(mods) /\ ViolatesCompleteness(mods) ->
            "Missing required new files: "
      [] ~ViolatesNonEmpty(mods) /\ ~ViolatesCompleteness(mods)
         /\ ViolatesRelativeImports(mods) -> "Import validation failed: "
      [] ~ViolatesNonEmpty(mods) /\ ~ViolatesCompleteness(mods)
         /\ ~ViolatesRelativeImports(mods) /\ ViolatesPackages(mods) ->
            "NPM import validation failed: "
      [] OTHER -> "No actual changes generated"

\* C34: the pre-apply checks run in the order empty response, completeness,
\* relative imports, packages, no-op diff: the error recorded for a response
\* is that of the earliest check it violates, and of no later one; a response
\* that reaches apply violates none.
C34_EarliestCheckIsRecorded ==
    /\ FailedPreApply =>
          /\ LastAttempt.error[1][1] = EarliestError(modifications[1])
          /\ \/ ViolatesNonEmpty(modifications[1])
             \/ ViolatesCompleteness(modifications[1])
             \/ ViolatesRelativeImports(modifications[1])
             \/ ViolatesPackages(modifications[1])
             \/ ViolatesChange(modifications[1])
    /\ pc = "apply" =>
          /\ ~ViolatesNonEmpty(modifications[1])
          /\ ~ViolatesCompleteness(modifications[1])
          /\ ~ViolatesRelativeImports(modifications[1])
          /\ ~ViolatesPackages(modifications[1])
          /\ ~ViolatesChange(modifications[1])

\* C34 witness: a response that omits the required file and imports a
\* missing file and a missing package failed as incomplete
C34_Witness ==
    /\ FailedPreApply
    /\ ViolatesCompleteness(modifications[1])
    /\ ViolatesRelativeImports(modifications[1])
    /\ ViolatesPackages(modifications[1])
    /\ LastAttempt.error[1][1] = "Missing required new files: "

\* apply_with_git returned its ApplyResult in this step
ApplyReturned ==
    /\ ApplyStep
    /\ trace'[Len(trace')].op # "raise"

\* the files the diffs of the attempt name that exist, with their content
FilesToBackUp ==
    LET named == {diffs[i].file_path : i \in 1..Len(diffs)}
    IN [path \in named \cap DOMAIN fs |-> fs[path]]

\* C35: apply copies every file that a header of the combined diff names and
\* that exists into the backup directory, with the content it has before the
\* patch tool runs, and skips the files that do not exist; the backup is
\* there whether the apply succeeds or fails.
C35_BackupHoldsPreApplyContent ==
    [][ApplyReturned => backups' = Append(backups, FilesToBackUp)]_vars

\* C35 witness: the apply of a diff of an existing and a new file failed, and
\* its backup holds the existing file only, with its content
C35_Witness ==
    /\ pc = "loop" /\ trace # <<>>
    /\ trace[Len(trace)].op = "apply" /\ ~trace[Len(trace)].ok
    /\ Len(diffs) = 2
    /\ backups # <<>>
    /\ DOMAIN backups[Len(backups)] = {AppPath}
    /\ backups[Len(backups)][AppPath] = fs[AppPath]

----------------------------------------------------------------------------
\* Order of the ranked list among equal scores

\* the file paths in the order the merge sees them: semantic results, then
\* keyword results, then hint results
SeenOrder ==
    [i \in 1..Len(semantic) |-> semantic[i].file_path]
    \o [i \in 1..Len(keyword) |-> keyword[i].file_path]
    \o [i \in 1..Len(hints) |-> hints[i].file_path]

\* the position at which the merge sees a path for the first time
FirstSeen(path) ==
    CHOOSE i \in 1..Len(SeenOrder) :
        /\ SeenOrder[i] = path
        /\ \A j \in 1..(i - 1) : SeenOrder[j] # path

\* C36: among paths of equal fused score the ranked list keeps the order of
\* first appearance in the merge, semantic results first, then keyword
\* results, then hint results.
C36_TiesKeepFirstAppearance ==
    ranked # <<>> =>
        \A i, j \in 1..Len(ranked[1]) :
            (i < j /\ ranked[1][i].score = ranked[1][j].score) =>
                FirstSeen(ranked[1][i].file_path) < FirstSeen(ranked[1][j].file_path)

\* C36 witness: a path that only the semantic search returned and a path
\* that only the keyword search returned have the same score and are both in
\* the ranked list
C36_Witness ==
    /\ ranked # <<>>
    /\ Len(ranked[1]) = 2
    /\ ranked[1][1].score = ranked[1][2].score
    /\ ranked[1][1].signals = <<"semantic">>
    /\ ranked[1][2].signals = <<"keyword">>

----------------------------------------------------------------------------
\* Classification of a failed build, for every output of the build command

\* the lines a build command writes
BuildLines ==
    { "Error: Cannot find module './Footer'",
      "SyntaxError: Unexpected token (3:1)",
      "TypeError: items.map is not a function",
      "ReferenceError: Footer is not defined",
      "[vite] Failed to resolve import \"./Footer\"",
      "ESLint: 2 problems",
      "Build failed with 1 error" }

\* the stripped texts of a stream: at most MaxBuildLines different lines
MaxBuildLines == 2
BuildTexts ==
    {<<>>} \cup {<<a>> : a \in BuildLines}
           \cup {t \in BuildLines \X BuildLines : t[1] # t[2]}

\* stderr_text if stderr_text else stdout_text
error_output_of(stdout_text, stderr_text) ==
    IF stderr_text # <<>> THEN stderr_text ELSE stdout_text

InitBuild ==
    /\ ReactAtRest
    /\ ExecutorAtRest
    /\ IndexAtRest
    /\ RetrievalAtRest
    /\ AgentAtRest
    /\ DiffAtRest
    /\ build_returncode \in {0, 1}
    /\ build_stdout \in BuildTexts
    /\ build_stderr \in BuildTexts
    /\ build_validation = <<>>

\* validate_build, once the build command has exited
ValidateBuild ==
    /\ build_validation = <<>>
    /\ build_validation' =
         <<validate_build(
             [kind |-> IF build_returncode = 0 THEN "exit_zero" ELSE "exit_nonzero",
              out |-> error_output_of(build_stdout, build_stderr)])>>
    /\ UNCHANGED <<executorVars, indexVars, retrievalVars, agentVars, diffVars, reactVars,
                   build_returncode, build_stdout, build_stderr>>

NextBuild == ValidateBuild

SpecBuild == InitBuild /\ [][NextBuild]_vars

\* "Cannot find module" occurs in the text
MentionsCannotFindModule(text) ==
    \E i \in 1..Len(text) : text[i] = "Error: Cannot find module './Footer'"

\* a signature _classify_error tests before the import signatures occurs
MentionsSyntaxOrType(text) ==
    \E i \in 1..Len(text) :
        text[i] \in {"SyntaxError: Unexpected token (3:1)",
                     "TypeError: items.map is not a function"}

\* the build exited non-zero and validate_build returned
BuildFailed == build_validation # <<>> /\ build_returncode # 0

\* C37, as stated: a build that exits non-zero with output containing
\* "Cannot find module" is classified as an import error, whatever else the
\* output contains
C37_CannotFindModuleIsImport ==
    (BuildFailed /\ (MentionsCannotFindModule(build_stdout)
                     \/ MentionsCannotFindModule(build_stderr)))
        => build_validation[1].error_type = <<"import">>

\* C37, amended: a build that exits non-zero is classified as an import error
\* when the text that is classified (standard error, or standard output when
\* standard error is empty) contains "Cannot find module" and none of the
\* syntax and type signatures, which are tested first
C37_ImportUnlessSyntaxOrType ==
    (BuildFailed
     /\ MentionsCannotFindModule(error_output_of(build_stdout, build_stderr))
     /\ ~MentionsSyntaxOrType(error_output_of(build_stdout, build_stderr)))
        => build_validation[1].error_type = <<"import">>

\* a failed build whose standard error names the missing module next to a
\* reference error is classified as an import error
C37_Witness ==
    /\ BuildFailed
    /\ build_stderr = <<"ReferenceError: Footer is not defined",
                        "Error: Cannot find module './Footer'">>
    /\ build_validation[1].error_type = <<"import">>

----------------------------------------------------------------------------
\* ReAct agent: run_react_agent and its tools. Contents are texts given
\* token by token, "\n" ending a line; the durations and token counts of the
\* steps and the messages of the conversation are left out.

\* Bounds of the model
MaxIterations == 3

\* the source files of the project, and the contents the model writes
ReactAppPath == "src/App.jsx"
ReactFooterPath == "src/Footer.jsx"
ReactOriginal ==
    <<"import React from 'react'", "\n", "<div/>", "\n", "<div/>", "\n">>
ReactContents ==
    { <<"import React from 'react'", "\n", "<footer/>", "\n">>,
      <<"import pad from 'left-pad'", "\n">> }

\* the packages the imports of a content name (npm_import_pattern)
PackagesOf(content) ==
    {IF content[i] = "import React from 'react'" THEN "react" ELSE "left-pad" :
        i \in {j \in 1..Len(content) :
                  content[j] \in {"import React from 'react'",
                                  "import pad from 'left-pad'"}}}

\* the directories of node_modules, when node_modules exists
ReactPackages == {"react"}

\* JSON values that hold a text or a boolean
JText(text) == [t |-> "str", v |-> text]
JBool(b) == [t |-> "bool", v |-> <<b>>]

\* step.action_input: what json.loads gave for the arguments of the tool
\* call, a dict with the keys the tools read or a value that is not a dict;
\* arguments that do not decode become the dict {"raw": arguments}
Params(path, content, search, replace, summary, success) ==
    [type |-> "dict", path |-> path, content |-> content, search |-> search,
     replace |-> replace, summary |-> summary, success |-> success]
NoParams == Params(Absent, Absent, Absent, Absent, Absent, Absent)
ListParams == [NoParams EXCEPT !.type = "list"]

\* ToolResult, and what a call of a tool leaves behind: the result or the
\* class of the exception it raised, the context, the project files, and the
\* paths it called write_text on
ToolResult(success, output) == [success |-> success, output |-> output]
Outcome(tool_result, ctx, files, written) ==
    [raised |-> <<>>, result |-> <<tool_result>>, context |-> ctx, fs |-> files,
     written |-> written]
ToolRaised(class, ctx, files, written) ==
    [raised |-> <<class>>, result |-> <<>>, context |-> ctx, fs |-> files,
     written |-> written]

\* pending_changes: a dict, kept in insertion order
PendingPaths(pending) == {pending[i].path : i \in 1..Len(pending)}
PendingGet(pending, path) ==
    pending[CHOOSE i \in 1..Len(pending) : pending[i].path = path].content
PendingSet(pending, path, content) ==
    IF path \in PendingPaths(pending)
    THEN [i \in 1..Len(pending) |->
            IF pending[i].path = path THEN [path |-> path, content |-> content]
            ELSE pending[i]]
    ELSE Append(pending, [path |-> path, content |-> content])

\* the context dict of run_react_agent as it is created
InitialContext ==
    [pending_changes |-> <<>>, applied_diffs |-> <<>>, files_modified |-> <<>>,
     finished |-> FALSE, finish_summary |-> <<>>, finish_success |-> TRUE]

write_file(params, ctx, files) ==
    IF params.type # "dict" THEN ToolRaised("AttributeError", ctx, files, <<>>)
    ELSE
    LET file_path == Get(params.path, JText(<<>>))
        content == Get(params.content, JText(<<>>))
    IN  IF file_path.v = <<>>
        THEN Outcome(ToolResult(FALSE, <<"Error: 'path' parameter is required">>),
                     ctx, files, <<>>)
        ELSE IF content.v = <<>>
        THEN Outcome(ToolResult(FALSE, <<"Error: 'content' parameter is required">>),
                     ctx, files, <<>>)
        ELSE Outcome(ToolResult(TRUE, <<"Staged changes to ", file_path.v[1]>>),
                     [ctx EXCEPT !.pending_changes =
                         PendingSet(@, file_path.v[1], content.v)],
                     files, <<>>)

\* str.count and str.replace(search, replace, 1) for a search text of one token
Count(content, search) == Cardinality({i \in 1..Len(content) : content[i] = search[1]})
ReplaceFirst(content, search, replace) ==
    LET at == CHOOSE i \in 1..Len(content) :
                  /\ content[i] = search[1]
                  /\ \A j \in 1..(i - 1) : content[j] # search[1]
    IN  SubSeq(content, 1, at - 1) \o replace \o SubSeq(content, at + 1, Len(content))

edit_file(params, ctx, files) ==
    IF params.type # "dict" THEN ToolRaised("AttributeError", ctx, files, <<>>)
    ELSE
    LET file_path == Get(params.path, JText(<<>>))
        search == Get(params.search, JText(<<>>))
        replace == Get(params.replace, JText(<<>>))
        pending == ctx.pending_changes
    IN  IF file_path.v = <<>>
        THEN Outcome(ToolResult(FALSE, <<"Error: 'path' parameter is required">>),
                     ctx, files, <<>>)
        ELSE IF search.v = <<>>
        THEN Outcome(ToolResult(FALSE, <<"Error: 'search' parameter is required">>),
                     ctx, files, <<>>)
        ELSE IF file_path.v[1] \notin PendingPaths(pending) \cup DOMAIN files
        THEN Outcome(ToolResult(FALSE, <<"File not found: ", file_path.v[1]>>),
                     ctx, files, <<>>)
        ELSE
        LET current_content ==
                IF file_path.v[1] \in PendingPaths(pending)
                THEN PendingGet(pending, file_path.v[1])
                ELSE files[file_path.v[1]]
            count == Count(current_content, search.v)
        IN  IF count = 0
            THEN Outcome(ToolResult(FALSE, <<"Search text not found in ", file_path.v[1]>>),
                         ctx, files, <<>>)
            ELSE IF count > 1
            THEN Outcome(ToolResult(FALSE, <<"Search text found more than once.">>),
                         ctx, files, <<>>)
            ELSE Outcome(ToolResult(TRUE, <<"Staged edit to ", file_path.v[1]>>),
                         [ctx EXCEPT !.pending_changes =
                             PendingSet(@, file_path.v[1],
                                        ReplaceFirst(current_content, search.v, replace.v))],
                         files, <<>>)

\* the entries of validation_errors: the relative imports are looked up but
\* the result of the lookup is not used
validation_errors(pending, node_modules_exists) ==
    UNION {{<<pending[i].path, package_name>> :
                package_name \in IF node_modules_exists
                                 THEN PackagesOf(pending[i].content) \ ReactPackages
                                 ELSE {}} :
            i \in 1..Len(pending)}

validate_changes(params, ctx, files, node_modules_exists) ==
    IF ctx.pending_changes = <<>>
    THEN Outcome(ToolResult(FALSE, <<"No pending changes to validate">>), ctx, files, <<>>)
    ELSE IF validation_errors(ctx.pending_changes, node_modules_exists) # {}
    THEN Outcome(ToolResult(FALSE, <<"Validation errors:">>), ctx, files, <<>>)
    ELSE Outcome(ToolResult(TRUE, <<"Validation passed for ">>
                                  \o [i \in 1..Len(ctx.pending_changes) |->
                                         ctx.pending_changes[i].path]),
                 ctx, files, <<>>)

\* the project files after write_text of the first n pending changes
FilesAfterWrites(pending, files, n) ==
    [path \in DOMAIN files \cup {pending[i].path : i \in 1..n} |->
        IF \E i \in 1..n : pending[i].path = path
        THEN PendingGet(pending, path)
        ELSE files[path]]

\* apply_changes; write_text of the pending change number fail_at raises
\* OSError, none does when fail_at is 0
apply_changes(params, ctx, files, fail_at) ==
    LET pending == ctx.pending_changes
        entry(i) ==
            [file_path |-> pending[i].path,
             diff |-> generate_unified_diff_text(
                          IF pending[i].path \in DOMAIN files
                          THEN files[pending[i].path] ELSE <<>>,
                          pending[i].content, pending[i].path)]
    IN  IF pending = <<>>
        THEN Outcome(ToolResult(FALSE, <<"No pending changes to apply">>), ctx, files, <<>>)
        ELSE IF fail_at \in 1..Len(pending)
        THEN ToolRaised("OSError", ctx, FilesAfterWrites(pending, files, fail_at - 1),
                        [i \in 1..(fail_at - 1) |-> pending[i].path])
        ELSE Outcome(ToolResult(TRUE, <<"Applied changes to ">>
                                      \o [i \in 1..Len(pending) |-> pending[i].path]),
                     [ctx EXCEPT !.applied_diffs = [i \in 1..Len(pending) |-> entry(i)],
                                 !.files_modified = [i \in 1..Len(pending) |-> pending[i].path],
                                 !.pending_changes = <<>>],
                     FilesAfterWrites(pending, files, Len(pending)),
                     [i \in 1..Len(pending) |-> pending[i].path])

finish(params, ctx, files) ==
    IF params.type # "dict" THEN ToolRaised("AttributeError", ctx, files, <<>>)
    ELSE
    LET summary == Get(params.summary, JText(<<"Task completed">>))
        success == Get(params.success, JBool(TRUE))
    IN  Outcome(ToolResult(TRUE, <<"Task finished: ">> \o summary.v),
                [ctx EXCEPT !.finished = TRUE,
                            !.finish_summary = summary.v,
                            !.finish_success = success.v[1]],
                files, <<>>)

read_file(params, ctx, files) ==
    IF params.type # "dict" THEN ToolRaised("AttributeError", ctx, files, <<>>)
    ELSE
    LET file_path == Get(params.path, JText(<<>>))
    IN  IF file_path.v = <<>>
        THEN Outcome(ToolResult(FALSE, <<"Error: 'path' parameter is required">>),
                     ctx, files, <<>>)
        ELSE IF file_path.v[1] \notin DOMAIN files
        THEN Outcome(ToolResult(FALSE, <<"File not found: ", file_path.v[1]>>),
                     ctx, files, <<>>)
        ELSE Outcome(ToolResult(TRUE, <<"--- ", file_path.v[1], " ---\n">>
                                      \o files[file_path.v[1]]), ctx, files, <<>>)

\* the tools that look at the project and answer with a text: they change
\* neither the context nor a project file
InspectingTools ==
    {"search_files", "list_directory", "semantic_search", "list_dependencies", "run_eslint"}
inspect(name, params, ctx, files) ==
    IF params.type # "dict" THEN ToolRaised("AttributeError", ctx, files, <<>>)
    ELSE Outcome(ToolResult(TRUE, <<name, " output">>), ctx, files, <<>>)

\* the names of REACT_TOOLS
REACT_TOOLS ==
    {"read_file", "write_file", "edit_file", "validate_changes", "apply_changes", "finish"}
    \cup InspectingTools

\* tool.execute(step.action_input, context) of the tool get_tool_by_name found
execute(name, params, ctx, files, node_modules_exists, fail_at) ==
    CASE name = "write_file" -> write_file(params, ctx, files)
      [] name = "edit_file" -> edit_file(params, ctx, files)
      [] name = "validate_changes" -> validate_changes(params, ctx, files, node_modules_exists)
      [] name = "apply_changes" -> apply_changes(params, ctx, files, fail_at)
      [] name = "finish" -> finish(params, ctx, files)
      [] name = "read_file" -> read_file(params, ctx, files)
      [] OTHER -> inspect(name, params, ctx, files)

\* the first tool call of a response: the name of the function, its decoded
\* arguments, and which write_text of an apply_changes fails
ToolCall(name, params, fail_at) == [name |-> name, params |-> params, fail_at |-> fail_at]
ToolCalls ==
    {ToolCall("write_file", Params(JText(<<p>>), JText(c), Absent, Absent, Absent, Absent), 0) :
        p \in {ReactAppPath, ReactFooterPath}, c \in ReactContents}
    \cup {ToolCall("write_file", Params(JText(<<ReactAppPath>>), JText(<<>>),
                                        Absent, Absent, Absent, Absent), 0),
          ToolCall("write_file", NoParams, 0),
          ToolCall("write_file", ListParams, 0)}
    \cup {ToolCall("edit_file", Params(JText(<<ReactAppPath>>), Absent, JText(<<s>>),
                                       JText(<<"import pad from 'left-pad'">>),
                                       Absent, Absent), 0) :
            s \in {"import React from 'react'", "<div/>", "<span/>"}}
    \cup {ToolCall("edit_file", Params(JText(<<ReactFooterPath>>), Absent,
                                       JText(<<"<footer/>">>), Absent, Absent, Absent), 0)}
    \cup {ToolCall("validate_changes", NoParams, 0)}
    \cup {ToolCall("apply_changes", NoParams, k) : k \in 0..2}
    \cup {ToolCall("finish", Params(Absent, Absent, Absent, Absent,
                                    JText(<<"Footer added">>), s), 0) :
            s \in {Absent, JBool(TRUE), JBool(FALSE)}}
    \cup {ToolCall("finish", NoParams, 0), ToolCall("finish", ListParams, 0)}
    \cup {ToolCall("read_file", Params(JText(<<ReactAppPath>>), Absent, Absent,
                                       Absent, Absent, Absent), 0)}
    \cup {ToolCall(name, NoParams, 0) : name \in InspectingTools \cup {"deploy"}}

\* ReactStep
ReactStep(number, action, action_input, observation) ==
    [iteration |-> number, action |-> action, action_input |-> action_input,
     observation |-> observation]

\* ReactResult
ReactResult(success, applied, files_modified, message, recorded) ==
    [success |-> success, diffs |-> applied, files_modified |-> files_modified,
     message |-> message, steps |-> recorded]

\* no call of run_react_agent is in progress
InitReact ==
    /\ ExecutorAtRest
    /\ IndexAtRest
    /\ RetrievalAtRest
    /\ AgentAtRest
    /\ DiffAtRest
    /\ BuildAtRest
    /\ max_iterations \in 0..MaxIterations
    /\ react_node_modules \in BOOLEAN
    /\ react_fs = (ReactAppPath :> ReactOriginal)
    /\ context = InitialContext
    /\ iteration = 0
    /\ react_steps = <<>>
    /\ react_pc = IF max_iterations = 0 THEN "after_loop" ELSE "loop"
    /\ react_result = <<>>
    /\ model_calls = 0
    /\ tool_log = <<>>

\* the end of an iteration without the break
AfterIterationNoBreak(ctx, broke) ==
    /\ iteration' = iteration + 1
    /\ react_pc' = IF iteration + 1 = max_iterations THEN "after_loop" ELSE "loop"

\* the end of an iteration: break when the context says finished, and the
\* loop is over after iteration max_iterations - 1
AfterIteration(ctx, broke) ==
    /\ iteration' = iteration + 1
    /\ react_pc' = IF (broke /\ ctx.finished) \/ iteration + 1 = max_iterations
                   THEN "after_loop" ELSE "loop"

\* an iteration in which the call of the model, or the reading of its
\* response, raises: the except clause records the step and the loop goes on
IterationRaises ==
    /\ react_pc = "loop"
    /\ model_calls' = model_calls + 1
    /\ react_steps' = Append(react_steps, ReactStep(iteration + 1, <<>>, NoParams,
                                        <<"Error: ", "Request timed out.">>))
    /\ AfterIteration(context, FALSE)
    /\ UNCHANGED <<executorVars, indexVars, retrievalVars, agentVars, diffVars, buildVars,
                   max_iterations, react_node_modules, react_fs, context,
                   react_result, tool_log>>

\* an iteration in which the response has no tool call
IterationThinks ==
    /\ react_pc = "loop"
    /\ model_calls' = model_calls + 1
    /\ react_steps' = Append(react_steps, ReactStep(iteration + 1, <<>>, NoParams, <<>>))
    /\ AfterIteration(context, TRUE)
    /\ UNCHANGED <<executorVars, indexVars, retrievalVars, agentVars, diffVars, buildVars,
                   max_iterations, react_node_modules, react_fs, context,
                   react_result, tool_log>>

\* an iteration in which the response has tool calls: the first one is taken
IterationCallsTool(tool_call) ==
    /\ react_pc = "loop"
    /\ model_calls' = model_calls + 1
    /\ IF tool_call.name \in REACT_TOOLS
       THEN LET out == execute(tool_call.name, tool_call.params, context, react_fs,
                               react_node_modules, tool_call.fail_at)
            IN  /\ context' = out.context
                /\ react_fs' = out.fs
                /\ react_steps' = Append(react_steps,
                       ReactStep(iteration + 1, <<tool_call.name>>, tool_call.params,
                                 IF out.raised # <<>>
                                 THEN <<"Tool execution error: ", out.raised[1]>>
                                 ELSE out.result[1].output))
                /\ tool_log' = Append(tool_log,
                       [iteration |-> iteration + 1,
                        tool |-> tool_call.name,
                        pending |-> context.pending_changes,
                        returned |-> out.raised = <<>>,
                        success |-> out.raised = <<>> /\ out.result[1].success,
                        written |-> out.written,
                        changed |-> {path \in DOMAIN out.fs :
                                        path \notin DOMAIN react_fs
                                        \/ out.fs[path] # react_fs[path]}])
                /\ AfterIteration(out.context, TRUE)
       ELSE /\ react_steps' = Append(react_steps,
                       ReactStep(iteration + 1, <<tool_call.name>>, tool_call.params,
                                 <<"Unknown tool: ", tool_call.name>>))
            /\ AfterIteration(context, TRUE)
            /\ UNCHANGED <<context, react_fs, tool_log>>
    /\ UNCHANGED <<executorVars, indexVars, retrievalVars, agentVars, diffVars, buildVars,
                   max_iterations, react_node_modules, react_result>>

\* after the loop: the result is read from the context, where the key
\* finish_success is present from the start
ReturnReactResult ==
    /\ react_pc = "after_loop"
    /\ react_pc' = "returned"
    /\ react_result' = <<ReactResult(context.finish_success, context.applied_diffs,
                                     context.files_modified, context.finish_summary,
                                     react_steps)>>
    /\ UNCHANGED <<executorVars, indexVars, retrievalVars, agentVars, diffVars, buildVars,
                   max_iterations, react_node_modules, react_fs, context, iteration,
                   react_steps, model_calls, tool_log>>

NextReact ==
    \/ IterationRaises
    \/ IterationThinks
    \/ \E tool_call \in ToolCalls : IterationCallsTool(tool_call)
    \/ ReturnReactResult

SpecReact == InitReact /\ [][NextReact]_vars

\* the awaited calls of an iteration return or raise: the client of the
\* model has a request timeout and the tools work on local files
SpecReactFair == SpecReact /\ WF_vars(NextReact)

----------------------------------------------------------------------------
\* Claims on the ReAct agent

\* tool execution i called write_text on a project file or changed one
WroteFiles(i) == tool_log[i].written # <<>> \/ tool_log[i].changed # {}

\* C38: write_file and edit_file only change pending_changes and never a
\* project file; project files are written only by apply_changes, and only
\* after a validate_changes call that passed for the pending set that is
\* applied
C38_WritesOnlyByValidatedApply ==
    \A i \in 1..Len(tool_log) :
        /\ tool_log[i].tool \in {"write_file", "edit_file"} => ~WroteFiles(i)
        /\ WroteFiles(i) =>
            /\ tool_log[i].tool = "apply_changes"
            /\ \E j \in 1..(i - 1) :
                /\ tool_log[j].tool = "validate_changes"
                /\ tool_log[j].success
                /\ tool_log[j].pending = tool_log[i].pending

\* C39: the result of run_react_agent has success=true only if at least one
\* apply_changes call of the run wrote files; a run that reaches
\* max_iterations without applying anything does not report success
C39_SuccessOnlyAfterApply ==
    (react_result # <<>> /\ react_result[1].success)
        => \E i \in 1..Len(tool_log) :
              tool_log[i].tool = "apply_changes" /\ tool_log[i].written # <<>>

\* the counts of the loop: at most max_iterations model calls, one step per
\* iteration performed, numbered in order, and at most one tool per iteration
LoopCounts ==
    /\ model_calls <= max_iterations
    /\ model_calls = iteration
    /\ Len(react_steps) = iteration
    /\ \A i \in 1..Len(react_steps) : react_steps[i].iteration = i
    /\ \A i, j \in 1..Len(tool_log) :
          tool_log[i].iteration = tool_log[j].iteration => i = j

\* no iteration follows the one of tool execution i
StoppedAfter(i) ==
    /\ react_pc # "loop"
    /\ Len(react_steps) = tool_log[i].iteration

====
